---- MODULE Spec2Model ----
(***************************************************************************)
(* A model of the authentication glue of the CRT client dashboard:         *)
(*   - the Facebook token exchange function (exports.handler),             *)
(*   - the session lookup with timeout and retry (lib/supabase.ts),        *)
(*   - the token refresh (lib/supabase.ts, lib/auth.ts),                   *)
(*   - the session cleanup function, getCurrentUser, isAdmin and logout,   *)
(*   - the Settings, App and Dashboard components' asynchronous handlers.  *)
(* Each component has its own specification over the shared variables;     *)
(* the variables of the other components stay at their initial values.     *)
(***************************************************************************)
EXTENDS Integers, Sequences, FiniteSets, TLC

VARIABLES
    \* ---- Facebook token exchange handler -------------------------------
    exPc,          \* position of the handler: idle, awaitToken, awaitPages, awaitUser, awaitPerms, done
    exEvent,       \* the request: httpMethod and queryStringParameters?.code
    exEnv,         \* process.env: VITE_META_APP_ID and META_APP_SECRET
    exDiag,        \* how the diagnostic requests made so far ended, in order
    exData,        \* `data` (response.data of the token endpoint)
    exPages,       \* `pages`
    exCalls,       \* the axios.get requests issued so far, in order
    exTokenFetch,  \* how the token request itself ended: none, ok, failed
    exPagesFetch,  \* how the pages request itself ended: none, ok, failed
    exResponse,    \* the value the handler resolved with
    \* ---- getSessionWithRetry / getSessionWithTimeout --------------------
    sePc,          \* idle, awaiting (line 119), sleeping (line 131 / 138), returned, thrown
    now,           \* Date.now() - startTime, in ms, while the call runs
    maxTimeMs,
    initialDelayMs,
    attempt,
    lastError,
    promises,      \* per call of getSessionWithTimeout: the promise, its timer, its store lookup
    wakeAt,        \* when the pending backoff timer fires
    delays,        \* the delay of every backoff wait performed, in order
    seResult,      \* the value getSessionWithRetry returned or threw
    finishedAt,    \* the time at which it returned or threw
    \* ---- refreshSupabaseToken / refreshAuthToken ------------------------
    rfPc,          \* idle, awaiting (line 222), done
    rfVia,         \* the entry point of the running call
    navigatorDefined,
    onLine,
    cachedSession, \* the session the store client holds
    refreshRequests, \* number of supabase.auth.refreshSession() calls issued
    rfCalls,       \* number of refresh calls started
    rfAnswer,      \* what refreshSession() settled with in the last call, if it was called
    rfResult,      \* what the last finished call returned
    \* ---- session cleanup handler ---------------------------------------
    clPc,          \* idle, awaitDelete (line 27), done
    clEvent,       \* the request: httpMethod
    clClient,      \* whether the module-level supabase client was created (lines 9-16)
    clock,         \* Date.now() of the function's host, in ms
    rows,          \* the user_sessions table: rows with an id and expires_at in microseconds
    clNow,         \* `now` of the running invocation: the cutoff, in ms
    clRowsBefore,  \* the table as the running invocation found it
    clPrev,        \* the cutoff of the invocation before, if its delete succeeded
    clDeletes,     \* the delete operations issued by the running invocation
    clInvocations, \* number of invocations started
    clAnswer,      \* how the store answered the delete of the running invocation
    clResponse,    \* the value the handler resolved with
    \* ---- getCurrentUser --------------------------------------------------
    gcPc,          \* idle, awaitSession (line 12), awaitUser (line 37), done
    gcSession,     \* what supabase.auth.getSession() settled with
    gcRead,        \* what the read of public.users settled with
    gcUpdates,     \* number of last_sign_in updates issued
    gcResult,      \* the value getCurrentUser returned
    \* ---- Settings: the component state -------------------------------------
    stLoading,     \* loading
    stError,       \* error
    authRetryCount, \* the retry counter of the loader
    socialConnections, \* the connections displayed: their ids, in order
    \* ---- logout / handleRetryAuthentication --------------------------------
    loPc,          \* idle, awaitSignOut (auth.ts 195 / part_000 549), done
    loVia,         \* the entry point of the running call
    storage,       \* localStorage: its keys in the order of key(i)
    storageBlocked, \* whether an access to localStorage throws
    loOutcome,     \* none, true (logout returned), thrown (logout threw), redirected, error
    \* ---- handleDisconnectSocial --------------------------------------------
    dcPc,          \* idle, awaitDelete (part_000 507), done
    dcId,          \* connectionId of the running call
    dcConfirmed,   \* what confirm() returned in the running call: yes, no, or notAsked
    dcStore,       \* the ids in the social_connections table
    dcDeletes,     \* the delete requests issued by the running call
    dcCalls,       \* number of calls started
    dcShownBefore, \* socialConnections as the running call found it
    dcAnswer,      \* what the delete settled with in the running call
    \* ---- Settings: the loader (useEffect loadData) -------------------------
    ldRuns,        \* the loadData runs started: the authRetryCount each closed over, and its position
    ldEffectFor,   \* the authRetryCount the effect last ran for; -1 before the first run
    ldRefreshes,   \* number of refreshSupabaseToken() calls started
    ldGaveUp,      \* a run has ended with "User not authenticated after multiple attempts"
    ldOnlyNoUser,  \* every getUser() answer so far reported no user and no error
    \* ---- App: the authentication effect ------------------------------------
    apUser,        \* user
    apLoading,     \* loading
    apError,       \* error
    apInitPc,      \* initializeApp: idle, awaitSession (part_001 917), awaitUser (936), done
    apLookups,     \* the getCurrentUser() calls started: who started each, and how far it got
    apStoreSession, \* whether the store client holds a session
    apTimer,       \* the safety timeout: idle, armed, fired
    apSignedOut,   \* SIGNED_OUT was handled and no SIGNED_IN has arrived since
    apEvents,      \* number of auth events delivered
    \* ---- Dashboard: loadData -----------------------------------------------
    dbPc,          \* loadData: idle, awaitSession (part_001 49), awaitLoads (71), done
    dbLoading,     \* loading
    dbError,       \* error
    dbSlices,      \* stats, socialConnections, voiceflowMapping, messageAnalytics, recentConversations, hourlyVolume
    dbBefore,      \* the slices when the current run of loadData started
    dbSession,     \* what the session lookup of the current run settled with
    dbResults,     \* what Promise.allSettled gave in the current run
    dbRuns,        \* number of runs of loadData started
    \* ---- isAdmin -----------------------------------------------------------
    adPc,          \* isAdmin: idle, awaitSession (auth.ts 86), awaitUser (105), done
    adSession,     \* what the session lookup settled with
    adRead,        \* what the read of the role settled with
    adResult       \* the value isAdmin returned

exVars == <<exPc, exEvent, exEnv, exDiag, exData, exPages, exCalls, exTokenFetch,
            exPagesFetch, exResponse>>
seVars == <<sePc, now, maxTimeMs, initialDelayMs, attempt, lastError, promises,
            wakeAt, delays, seResult, finishedAt>>
rfVars == <<rfPc, rfVia, navigatorDefined, onLine, cachedSession, refreshRequests,
            rfCalls, rfAnswer, rfResult>>
clVars == <<clPc, clEvent, clClient, clock, rows, clNow, clRowsBefore, clPrev,
            clDeletes, clInvocations, clAnswer, clResponse>>
gcVars == <<gcPc, gcSession, gcRead, gcUpdates, gcResult>>
stVars == <<stLoading, stError, authRetryCount, socialConnections>>
loVars == <<loPc, loVia, storage, storageBlocked, loOutcome>>
dcVars == <<dcPc, dcId, dcConfirmed, dcStore, dcDeletes, dcCalls, dcShownBefore,
            dcAnswer>>
ldVars == <<ldRuns, ldEffectFor, ldRefreshes, ldGaveUp, ldOnlyNoUser>>
apVars == <<apUser, apLoading, apError, apInitPc, apLookups, apStoreSession, apTimer,
            apSignedOut, apEvents>>
dbVars == <<dbPc, dbLoading, dbError, dbSlices, dbBefore, dbSession, dbResults, dbRuns>>
adVars == <<adPc, adSession, adRead, adResult>>
\* the server functions and the library
coreVars == <<exVars, seVars, rfVars, clVars, gcVars>>
\* the components of the user interface
uiVars == <<stVars, loVars, dcVars, ldVars, apVars, dbVars, adVars>>
vars == <<coreVars, uiVars>>
\* what a component leaves alone
loRest == <<coreVars, dcVars, ldVars, apVars, dbVars, adVars>>
dcRest == <<coreVars, loVars, ldVars, apVars, dbVars, adVars>>
ldRest == <<coreVars, loVars, dcVars, apVars, dbVars, adVars>>
apRest == <<coreVars, stVars, loVars, dcVars, ldVars, dbVars, adVars>>
dbRest == <<coreVars, stVars, loVars, dcVars, ldVars, apVars, adVars>>
adRest == <<coreVars, stVars, loVars, dcVars, ldVars, apVars, dbVars>>

(***************************************************************************)
(* JavaScript values, tagged by type.                                      *)
(***************************************************************************)
Undefined == [t |-> "undefined"]
Null == [t |-> "null"]
Str(s) == [t |-> "string", v |-> s]
Num(n) == [t |-> "number", v |-> n]
Arr(a) == [t |-> "array", v |-> a]

\* JavaScript's ToBoolean on the values above
Truthy(x) ==
    /\ x.t \notin {"undefined", "null"}
    /\ (x.t = "string" => x.v # "")
    /\ (x.t = "number" => x.v # 0)

\* a || b
Or(a, b) == IF Truthy(a) THEN a ELSE b

InitialSlices ==
    [socialConnections |-> Arr(<<>>), voiceflowMapping |-> Null, stats |-> [t |-> "object", totalMessages |-> 0],
     messageAnalytics |-> Arr(<<>>), recentConversations |-> Arr(<<>>),
     hourlyVolume |-> Arr(<<>>)]

\* JSON.stringify of an object literal: a field whose value is undefined is left out
JsonStringify(obj) ==
    [k \in {f \in DOMAIN obj : obj[f] # Undefined} |-> obj[k]]

\* An Error as the code reads it: message, and response?.data?.error
Err(msg, respError) == [t |-> "error", message |-> msg, respError |-> respError]

(***************************************************************************)
(* Bounds of the model.                                                    *)
(***************************************************************************)
MaxPages == 2

(***************************************************************************)
(* The Facebook token exchange handler.                                    *)
(***************************************************************************)
headers ==
    [allowOrigin |-> "*", allowHeaders |-> "Content-Type",
     allowMethods |-> "GET, POST, OPTIONS"]

Response(status, body) ==
    [statusCode |-> status, headers |-> headers, body |-> JsonStringify(body)]

\* the requests the handler receives
Events ==
    [httpMethod : {"GET", "POST", "OPTIONS"},
     code : {Undefined, Str(""), Str("abc123")}]
\* process.env
Envs ==
    [appId : {Undefined, Str("app")}, appSecret : {Undefined, Str("secret")}]

\* what the provider can answer
AxiosErrors ==
    { Err(Str("timeout of 10000ms exceeded"), Undefined),
      Err(Str("Request failed with status code 400"),
          [t |-> "fberror", message |-> Str("Invalid verification code")]),
      Err(Str("Request failed with status code 500"),
          [t |-> "fberror", message |-> Undefined]) }
TokenPayloads ==
    {Null} \cup
    { [t |-> "token", access_token |-> a, expires_in |-> e] :
        a \in {Undefined, Str(""), Str("T1")}, e \in {Undefined, Num(3600)} }
PagesPayloads ==
    {Null} \cup
    { [t |-> "list", data |-> d] :
        d \in {Undefined, Null, [t |-> "object"], Str("")} \cup {Arr(l) : l \in (UNION { [1..n -> {[t |-> "page", id |-> 1], [t |-> "page", id |-> 2], Null}] : n \in 0..MaxPages })} }

\* only the provider's own message, without the fallbacks
ErrorMessage_noFallback(error) ==
    IF error.respError = Undefined THEN Undefined ELSE error.respError.message

\* error.response?.data?.error?.message || error.message || 'Server error ...'
ErrorMessage(error) ==
    Or(Or(IF error.respError = Undefined THEN Undefined ELSE error.respError.message,
          error.message),
       Str("Server error during token exchange"))

\* the outer catch lets the error go on to the caller
ServerError_rethrown(error) == [statusCode |-> 0, thrown |-> error]

\* the outer catch
ServerError(error) == Response(500, [error |-> ErrorMessage(error)])

\* a pages failure handled like a token failure: the token is lost
PagesFailed_tokenLost(data, pagesError) == ServerError(pagesError)

\* the catch of the pages step: the token is returned without pages
PagesFailed(data, pagesError) ==
    Response(200,
        [accessToken |-> data.access_token,
         expiresIn |-> data.expires_in,
         pages |-> Arr(<<>>),
         pagesError |-> Str("Failed to fetch pages"),
         errorDetails |-> Or(pagesError.respError, pagesError.message)])

\* the enhanced response with both token and pages
Success(data, pages) ==
    Response(200,
        [accessToken |-> data.access_token,
         expiresIn |-> data.expires_in,
         pages |-> pages])

\* pages.length === 0: only a string or an array has a length
LengthIsZero(pages) ==
    /\ pages.t \in {"array", "string"}
    /\ (pages.t = "array" => Len(pages.v) = 0)
    /\ (pages.t = "string" => pages.v = "")

\* pages.forEach(page => ... page.id ...) runs through
ForEachRuns(pages) ==
    /\ pages.t = "array"
    /\ \A i \in 1..Len(pages.v) : pages.v[i] # Null

\* a wrong test of the code parameter: only an absent one counts as missing
MissingCode_absentOnly(code) == code = Undefined

\* !code
MissingCode(code) == ~Truthy(code)

\* a wrong test of the configuration: both credentials must be absent
MissingConfig_bothAbsent(env) == ~Truthy(env.appId) /\ ~Truthy(env.appSecret)

\* !appId || !appSecret
MissingConfig(env) == ~Truthy(env.appId) \/ ~Truthy(env.appSecret)

ExFinish(resp) ==
    /\ exPc' = "done"
    /\ exResponse' = resp

\* the handler up to its first await
ExInvoke(event, env) ==
    /\ exPc = "idle"
    /\ exEvent' = event
    /\ exEnv' = env
    /\ IF event.httpMethod = "OPTIONS"
       THEN ExFinish([statusCode |-> 204, headers |-> headers]) /\ UNCHANGED exCalls
       ELSE IF MissingCode(event.code)
       THEN ExFinish(Response(400, [error |-> Str("Missing code parameter")]))
            /\ UNCHANGED exCalls
       ELSE IF MissingConfig(env)
       THEN ExFinish(Response(500, [error |-> Str("Server configuration error")]))
            /\ UNCHANGED exCalls
       ELSE /\ exCalls' = Append(exCalls, "oauth/access_token")
            /\ exPc' = "awaitToken"
            /\ UNCHANGED exResponse
    /\ UNCHANGED <<exDiag, exData, exPages, exTokenFetch, exPagesFetch>>

\* the token request rejects: the outer catch
ExTokenFails(error) ==
    /\ exPc = "awaitToken"
    /\ exTokenFetch' = "failed"
    /\ ExFinish(ServerError(error))
    /\ UNCHANGED <<exEvent, exEnv, exDiag, exData, exPages, exCalls, exPagesFetch>>

\* the token request resolves with response.data = payload
ExTokenResponds(payload) ==
    /\ exPc = "awaitToken"
    /\ exTokenFetch' = "ok"
    /\ exData' = payload
    /\ IF payload = Null
       THEN \* data.access_token throws a TypeError: the outer catch
            ExFinish(ServerError((Err(Str("TypeError"), Undefined)))) /\ UNCHANGED exCalls
       ELSE IF ~Truthy(payload.access_token)
       THEN ExFinish(Response(400, [error |-> Str("Failed to retrieve access token")]))
            /\ UNCHANGED exCalls
       ELSE /\ exCalls' = Append(exCalls, "me/accounts")
            /\ exPc' = "awaitPages"
            /\ UNCHANGED exResponse
    /\ UNCHANGED <<exEvent, exEnv, exDiag, exPages, exPagesFetch>>

\* the pages request rejects
ExPagesFails(pagesError) ==
    /\ exPc = "awaitPages"
    /\ exPagesFetch' = "failed"
    /\ ExFinish(PagesFailed(exData, pagesError))
    /\ UNCHANGED <<exEvent, exEnv, exDiag, exData, exPages, exCalls, exTokenFetch>>

\* the pages request resolves with pagesResponse.data = payload
ExPagesResponds(payload) ==
    /\ exPc = "awaitPages"
    /\ exPagesFetch' = "ok"
    /\ IF payload = Null
       THEN \* pagesResponse.data.data throws inside the try of the pages step
            /\ ExFinish(PagesFailed(exData, (Err(Str("TypeError"), Undefined))))
            /\ UNCHANGED <<exPages, exCalls>>
       ELSE LET pages == Or(payload.data, Arr(<<>>)) IN
            /\ exPages' = pages
            /\ IF LengthIsZero(pages)
               THEN /\ exCalls' = Append(exCalls, "me")
                    /\ exPc' = "awaitUser"
                    /\ UNCHANGED exResponse
               ELSE IF ForEachRuns(pages)
               THEN ExFinish(Success(exData, pages)) /\ UNCHANGED exCalls
               ELSE \* pages.forEach or page.id throws: the catch of the pages step
                    ExFinish(PagesFailed(exData, (Err(Str("TypeError"), Undefined)))) /\ UNCHANGED exCalls
    /\ UNCHANGED <<exEvent, exEnv, exDiag, exData, exTokenFetch>>

\* a failed identity request ends the pages step: no permissions request
ExUserSettles_failFast(ok) ==
    /\ exPc = "awaitUser"
    /\ exDiag' = Append(exDiag, ok)
    /\ IF ok
       THEN /\ exCalls' = Append(exCalls, "me/permissions")
            /\ exPc' = "awaitPerms"
            /\ UNCHANGED exResponse
       ELSE ExFinish(PagesFailed(exData, (Err(Str("TypeError"), Undefined)))) /\ UNCHANGED exCalls
    /\ UNCHANGED <<exEvent, exEnv, exData, exPages, exTokenFetch, exPagesFetch>>

\* the identity request settles either way: the permissions request follows
ExUserSettles(ok) ==
    /\ exPc = "awaitUser"
    /\ exCalls' = Append(exCalls, "me/permissions")
    /\ exPc' = "awaitPerms"
    /\ exDiag' = Append(exDiag, ok)
    /\ UNCHANGED <<exEvent, exEnv, exData, exPages, exTokenFetch, exPagesFetch,
                   exResponse>>

\* the permissions request settles either way
ExPermsSettles(ok) ==
    /\ exPc = "awaitPerms"
    /\ ExFinish(Success(exData, exPages))
    /\ exDiag' = Append(exDiag, ok)
    /\ UNCHANGED <<exEvent, exEnv, exData, exPages, exCalls, exTokenFetch,
                   exPagesFetch>>

ExInit ==
    /\ exPc = "idle"
    /\ exEvent = [httpMethod |-> "GET", code |-> Undefined]
    /\ exEnv = [appId |-> Undefined, appSecret |-> Undefined]
    /\ exDiag = <<>>
    /\ exData = Undefined
    /\ exPages = Undefined
    /\ exCalls = <<>>
    /\ exTokenFetch = "none"
    /\ exPagesFetch = "none"
    /\ exResponse = [statusCode |-> 0]

SeIdle ==
    /\ sePc = "idle"
    /\ now = 0
    /\ maxTimeMs = 0
    /\ initialDelayMs = 0
    /\ attempt = 0
    /\ lastError = Null
    /\ promises = <<>>
    /\ wakeAt = 0
    /\ delays = <<>>
    /\ seResult = Null
    /\ finishedAt = 0

RfIdle ==
    /\ rfPc = "idle"
    /\ rfVia = "none"
    /\ navigatorDefined = TRUE
    /\ onLine = TRUE
    /\ cachedSession = Null
    /\ refreshRequests = 0
    /\ rfCalls = 0
    /\ rfAnswer = Undefined
    /\ rfResult = "none"

ClIdle ==
    /\ clPc = "idle"
    /\ clEvent = [httpMethod |-> "GET"]
    /\ clClient = TRUE
    /\ clock = 0
    /\ rows = {}
    /\ clNow = 0
    /\ clRowsBefore = {}
    /\ clPrev = Null
    /\ clDeletes = 0
    /\ clInvocations = 0
    /\ clAnswer = Undefined
    /\ clResponse = [statusCode |-> 0]

GcIdle ==
    /\ gcPc = "idle"
    /\ gcSession = Undefined
    /\ gcRead = Undefined
    /\ gcUpdates = 0
    /\ gcResult = Undefined

StIdle ==
    /\ stLoading = FALSE
    /\ stError = Null
    /\ authRetryCount = 0
    /\ socialConnections = <<>>

LoIdle ==
    /\ loPc = "idle"
    /\ loVia = "none"
    /\ storage = <<>>
    /\ storageBlocked = FALSE
    /\ loOutcome = "none"

DcIdle ==
    /\ dcPc = "idle"
    /\ dcId = Undefined
    /\ dcConfirmed = "notAsked"
    /\ dcStore = {}
    /\ dcDeletes = 0
    /\ dcCalls = 0
    /\ dcShownBefore = <<>>
    /\ dcAnswer = Undefined

LdIdle ==
    /\ ldRuns = <<>>
    /\ ldEffectFor = -1
    /\ ldRefreshes = 0
    /\ ldGaveUp = FALSE
    /\ ldOnlyNoUser = TRUE

ApIdle ==
    /\ apUser = Null
    /\ apLoading = TRUE
    /\ apError = Null
    /\ apInitPc = "idle"
    /\ apLookups = <<>>
    /\ apStoreSession = FALSE
    /\ apTimer = "idle"
    /\ apSignedOut = FALSE
    /\ apEvents = 0

DbIdle ==
    /\ dbPc = "idle"
    /\ dbLoading = "loading"
    /\ dbError = Null
    /\ dbSlices = InitialSlices
    /\ dbBefore = InitialSlices
    /\ dbSession = Null
    /\ dbResults = Null
    /\ dbRuns = 0

AdIdle ==
    /\ adPc = "idle"
    /\ adSession = Null
    /\ adRead = Null
    /\ adResult = FALSE

CoreIdle == ExInit /\ SeIdle /\ RfIdle /\ ClIdle /\ GcIdle
UiIdle == StIdle /\ LoIdle /\ DcIdle /\ LdIdle /\ ApIdle /\ DbIdle /\ AdIdle

\* no operation has been called yet
AllIdle == CoreIdle /\ UiIdle

ExchangeNext ==
    \/ \E event \in Events, env \in Envs :
           ExInvoke(event, env) /\ UNCHANGED <<seVars, rfVars, clVars, gcVars, uiVars>>
    \/ \E error \in AxiosErrors :
           ExTokenFails(error) /\ UNCHANGED <<seVars, rfVars, clVars, gcVars, uiVars>>
    \/ \E payload \in TokenPayloads :
           ExTokenResponds(payload) /\ UNCHANGED <<seVars, rfVars, clVars, gcVars, uiVars>>
    \/ \E error \in AxiosErrors :
           ExPagesFails(error) /\ UNCHANGED <<seVars, rfVars, clVars, gcVars, uiVars>>
    \/ \E payload \in PagesPayloads :
           ExPagesResponds(payload) /\ UNCHANGED <<seVars, rfVars, clVars, gcVars, uiVars>>
    \/ \E ok \in BOOLEAN :
           ExUserSettles(ok) /\ UNCHANGED <<seVars, rfVars, clVars, gcVars, uiVars>>
    \/ \E ok \in BOOLEAN :
           ExPermsSettles(ok) /\ UNCHANGED <<seVars, rfVars, clVars, gcVars, uiVars>>

ExchangeSpec == AllIdle /\ [][ExchangeNext]_vars

(***************************************************************************)
(* getSessionWithTimeout and getSessionWithRetry.                          *)
(***************************************************************************)
AttemptTimeoutMs == 5000
MaxBackoffMs == 2000
MaxBudgetSteps == 7

Min(a, b) == IF a < b THEN a ELSE b

SeError(msg, ms) == [t |-> "error", message |-> msg, ms |-> ms]
\* new Error(`Session check timed out after ${timeoutMs}ms`)
TimedOut(timeoutMs) == SeError("Session check timed out after", timeoutMs)
\* new Error(`Session check failed after ${maxTimeMs}ms`)
CheckFailed(ms) == SeError("Session check failed after", ms)

\* what supabase.auth.getSession() settles with
Result(session, error) == [t |-> "result", session |-> session, error |-> error]
\* a store answer: the lookup resolves with a result or rejects with an error
StoreAnswers ==
    [how : {"resolve"}, v : { Result(Str("S1"), Null), Result(Null, Null), Result(Null, SeError("Supabase not configured", Null)) }] \cup [how : {"reject"}, v : { SeError("Failed to fetch", Null), Str("network down") }]

\* resolve(v) / reject(v) of a promise: the first settlement wins
Settle(p, st, v, t) ==
    IF p.state = "pending"
    THEN [p EXCEPT !.state = st, !.value = v, !.settledAt = t]
    ELSE p

\* the timer left running after the store answered
ClearTimeout_forgotten(p) == p

\* clearTimeout(timeoutId): a timer that has fired stays fired
ClearTimeout(p) ==
    IF p.timer = "armed" THEN [p EXCEPT !.timer = "cleared"] ELSE p

\* the .then / .catch of the store lookup: the timer is cleared, the promise settled
OnStoreSettled(p, a, t) ==
    LET q == [ClearTimeout(p) EXCEPT !.lookup = "settled", !.answer = a]
    IN  Settle(q, IF a.how = "resolve" THEN "fulfilled" ELSE "rejected", a.v, t)

\* a timeout callback that does not reject
OnTimeout_silent(p, t) == [p EXCEPT !.timer = "fired"]

\* the setTimeout callback
OnTimeout(p, t) ==
    Settle([p EXCEPT !.timer = "fired"], "rejected", TimedOut(p.timeoutMs), t)

\* the session read at the wrong place of the result: never found
SessionFound_never(result) == FALSE

\* result?.data?.session
SessionFound(result) ==
    /\ result.t = "result"
    /\ Truthy(result.session)

\* the backoff without its cap
Backoff_uncapped(initial, n) == initial * n

\* Math.min(initialDelayMs * attempt, 2000)
Backoff(initial, n) == Min(initial * n, MaxBackoffMs)

\* a call without its await: the caller goes on at once
Awaited_missing(p) == TRUE

\* `await`: the caller goes on once the promise has settled
Awaited(p) == p.state # "pending"

\* the recorded error dropped: always the generic error
Thrown_generic(last, ms) == CheckFailed(ms)

\* lastError || new Error(...)
Thrown(last, ms) == IF last # Null THEN last ELSE CheckFailed(ms)

\* the continuation of line 119 is ready to run
SeReady == sePc = "awaiting" /\ Awaited(promises[attempt])

\* the timers that are set, by the time at which they fire
SeTimers ==
    { promises[k].deadline : k \in {i \in DOMAIN promises : promises[i].timer = "armed"} }
    \cup (IF sePc = "sleeping" THEN {wakeAt} ELSE {})

\* the head of the while loop at time t, with attempt number n
SeLoop(t, T, n, last) ==
    IF t < T
    THEN /\ promises' = Append(promises, [state |-> "pending", value |-> Undefined, settledAt |-> 0, timer |-> "armed", deadline |-> t + AttemptTimeoutMs, timeoutMs |-> AttemptTimeoutMs, lookup |-> "pending", answer |-> Undefined])
         /\ sePc' = "awaiting"
         /\ UNCHANGED <<seResult, finishedAt>>
    ELSE /\ sePc' = "thrown"
         /\ seResult' = Thrown(last, T)
         /\ finishedAt' = t
         /\ UNCHANGED promises

\* getSessionWithRetry(T, d) up to its first await
SeCall(T, d) ==
    /\ sePc = "idle"
    /\ maxTimeMs' = T
    /\ initialDelayMs' = d
    /\ attempt' = 1
    /\ lastError' = Null
    /\ SeLoop(now, T, 1, Null)
    /\ UNCHANGED <<now, wakeAt, delays>>

\* the store answers lookup k after dt more ms
SeStoreSettles(k, a, dt) ==
    /\ k \in DOMAIN promises
    /\ promises[k].lookup = "pending"
    /\ ~SeReady
    /\ IF (sePc \in {"awaiting", "sleeping"}) THEN \A t \in SeTimers : now + dt <= t ELSE dt = 0
    /\ now' = now + dt
    /\ promises' = [promises EXCEPT ![k] = OnStoreSettled(@, a, now + dt)]
    /\ UNCHANGED <<sePc, maxTimeMs, initialDelayMs, attempt, lastError, wakeAt,
                   delays, seResult, finishedAt>>

\* the timer of call k fires
SeTimerFires(k) ==
    /\ k \in DOMAIN promises
    /\ promises[k].timer = "armed"
    /\ ~SeReady
    /\ \A t \in SeTimers : promises[k].deadline <= t
    /\ now' = IF promises[k].deadline > now THEN promises[k].deadline ELSE now
    /\ promises' = [promises EXCEPT ![k] = OnTimeout(@, now')]
    /\ UNCHANGED <<sePc, maxTimeMs, initialDelayMs, attempt, lastError, wakeAt,
                   delays, seResult, finishedAt>>

\* the wait before the next attempt
SeSleep(delay) ==
    /\ sePc' = "sleeping"
    /\ wakeAt' = now + delay
    /\ delays' = Append(delays, delay)
    /\ attempt' = attempt + 1
    /\ UNCHANGED <<seResult, finishedAt>>

\* the loop body after the await of line 119
SeResume ==
    /\ sePc = "awaiting"
    /\ Awaited(promises[attempt])
    /\ LET p == promises[attempt] IN
       IF p.state = "rejected"
       THEN /\ lastError' = (IF p.value.t = "error" THEN p.value ELSE SeError(p.value.v, Null))
            /\ SeSleep(initialDelayMs)
       ELSE IF SessionFound(p.value)
       THEN /\ sePc' = "returned"
            /\ seResult' = p.value
            /\ finishedAt' = now
            /\ UNCHANGED <<lastError, wakeAt, delays, attempt>>
       ELSE /\ SeSleep(Backoff(initialDelayMs, attempt))
            /\ UNCHANGED lastError
    /\ UNCHANGED <<now, maxTimeMs, initialDelayMs, promises>>

\* the backoff timer fires: back to the head of the loop
SeWake ==
    /\ sePc = "sleeping"
    /\ \A t \in SeTimers : wakeAt <= t
    /\ now' = wakeAt
    /\ SeLoop(wakeAt, maxTimeMs, attempt, lastError)
    /\ UNCHANGED <<maxTimeMs, initialDelayMs, attempt, lastError, wakeAt, delays>>

SessionNext ==
    \/ \E T \in {0, 1000, MaxBudgetSteps * 1000}, d \in {1500, 3000} :
           SeCall(T, d) /\ UNCHANGED <<exVars, rfVars, clVars, gcVars, uiVars>>
    \/ \E k \in 1..Len(promises), a \in StoreAnswers, dt \in {0, 100} :
           SeStoreSettles(k, a, dt) /\ UNCHANGED <<exVars, rfVars, clVars, gcVars, uiVars>>
    \/ \E k \in 1..Len(promises) :
           SeTimerFires(k) /\ UNCHANGED <<exVars, rfVars, clVars, gcVars, uiVars>>
    \/ SeResume /\ UNCHANGED <<exVars, rfVars, clVars, gcVars, uiVars>>
    \/ SeWake /\ UNCHANGED <<exVars, rfVars, clVars, gcVars, uiVars>>

SessionSpec == AllIdle /\ [][SessionNext]_vars

\* The event loop runs every timer callback that is due and every continuation
\* that is ready; nothing makes the store answer.
SeOthers == <<exVars, rfVars, clVars, gcVars, uiVars>>
SessionFairSpec ==
    /\ AllIdle
    /\ [][SessionNext]_vars
    /\ WF_vars(\E k \in 1..Len(promises) : SeTimerFires(k) /\ UNCHANGED SeOthers)
    /\ WF_vars(SeResume /\ UNCHANGED SeOthers)
    /\ WF_vars(SeWake /\ UNCHANGED SeOthers)

(***************************************************************************)
(* refreshSupabaseToken and refreshAuthToken.                              *)
(***************************************************************************)
MaxRefreshCalls == 2

\* a session of the store client, by its expires_at (optional in the client's type)
Session(expiresAt) == [t |-> "session", expires_at |-> expiresAt]
Sessions == { Session(e) : e \in {Undefined, Num(100), Num(200)} }

\* what supabase.auth.refreshSession() settles with
RefreshAnswers ==
    [how : {"resolve"}, v : {Result(s, Null) : s \in Sessions \cup {Null}}
                            \cup {Result(Null, SeError("Invalid Refresh Token", Null))}]
    \cup [how : {"reject"}, v : {SeError("Failed to fetch", Null)}]

\* the connectivity test left out
Offline_unchecked == FALSE

\* typeof navigator !== 'undefined' && !navigator.onLine
Offline == navigatorDefined /\ ~onLine

\* the value refreshSupabaseToken returns once refreshSession() has settled with a
RefreshOutcome(a) ==
    IF a.how = "reject" THEN "false"
    ELSE IF Truthy(a.v.error) THEN "false"
    ELSE IF ~Truthy(a.v.session) THEN "false"
    ELSE IF (a.v.session.expires_at.t # "number") THEN "false"
    ELSE "true"

\* refreshSupabaseToken(), or refreshAuthToken() which awaits it, up to the await
RfCall(via) ==
    /\ rfPc \in {"idle", "done"}
    /\ rfCalls < MaxRefreshCalls
    /\ rfCalls' = rfCalls + 1
    /\ rfVia' = via
    /\ rfAnswer' = Undefined
    /\ IF Offline
       THEN /\ rfPc' = "done"
            /\ rfResult' = "false"
            /\ UNCHANGED refreshRequests
       ELSE /\ rfPc' = "awaiting"
            /\ rfResult' = "none"
            /\ refreshRequests' = refreshRequests + 1
    /\ UNCHANGED <<navigatorDefined, onLine, cachedSession>>

\* refreshSession() settles; the store client keeps the session it hands out
RfStoreAnswers(a) ==
    /\ rfPc = "awaiting"
    /\ rfPc' = "done"
    /\ rfAnswer' = a
    /\ rfResult' = RefreshOutcome(a)
    /\ cachedSession' =
           IF a.how = "resolve" /\ Truthy(a.v.session) THEN a.v.session
           ELSE cachedSession
    /\ UNCHANGED <<rfVia, navigatorDefined, onLine, refreshRequests, rfCalls>>

\* the browser goes offline or comes back online
RfConnectivity(b) ==
    /\ navigatorDefined
    /\ onLine # b
    /\ onLine' = b
    /\ UNCHANGED <<rfPc, rfVia, navigatorDefined, cachedSession, refreshRequests,
                   rfCalls, rfAnswer, rfResult>>

RefreshInit ==
    /\ ExInit /\ SeIdle /\ ClIdle /\ GcIdle /\ UiIdle
    /\ rfPc = "idle"
    /\ rfVia = "none"
    /\ navigatorDefined \in BOOLEAN
    /\ onLine \in BOOLEAN
    /\ cachedSession \in Sessions \cup {Null}
    /\ refreshRequests = 0
    /\ rfCalls = 0
    /\ rfAnswer = Undefined
    /\ rfResult = "none"

RefreshNext ==
    \/ \E via \in {"refreshSupabaseToken", "refreshAuthToken"} :
           RfCall(via) /\ UNCHANGED <<exVars, seVars, clVars, gcVars, uiVars>>
    \/ \E a \in RefreshAnswers :
           RfStoreAnswers(a) /\ UNCHANGED <<exVars, seVars, clVars, gcVars, uiVars>>
    \/ \E b \in BOOLEAN :
           RfConnectivity(b) /\ UNCHANGED <<exVars, seVars, clVars, gcVars, uiVars>>

RefreshSpec == RefreshInit /\ [][RefreshNext]_vars

(***************************************************************************)
(* The session cleanup handler.                                            *)
(***************************************************************************)
MaxCleanups == 2
MaxClock == 3
MaxRows == 2

\* the tables: at most one row per id
Tables ==
    { t \in SUBSET { [id |-> i, expires_at |-> e] : i \in 1..MaxRows, e \in { 500 * k : k \in 1..(2 * MaxClock) } } :
        \A r1, r2 \in t : r1.id = r2.id => r1 = r2 }

\* new Date().toISOString(), as the store reads it: a timestamp in microseconds
ToISOString(ms) == ms * 1000

\* a cutoff that also takes the rows expiring at `now`
Expired_orAtNow(row, cutoff) == row.expires_at <= ToISOString(cutoff)

\* .lt('expires_at', now)
Expired(row, cutoff) == row.expires_at < ToISOString(cutoff)

\* a read in place of the delete: the rows are returned and stay
Remaining_allKept(table, cutoff) == table

\* .delete().lt('expires_at', now).select(): the rows deleted, and the rows left
Deleted(table, cutoff) == { r \in table : Expired(r, cutoff) }
Remaining(table, cutoff) == table \ Deleted(table, cutoff)

cleanupHeaders ==
    [allowOrigin |-> "*", allowHeaders |-> "Content-Type",
     allowMethods |-> "GET, POST, OPTIONS"]

\* the 200 response
CleanupSuccess(cleanedCount) ==
    [statusCode |-> 200, headers |-> cleanupHeaders,
     body |-> JsonStringify([status |-> Str("success"),
                             message |-> [t |-> "template", text |-> "Cleaned up expired sessions", n |-> cleanedCount]])]

\* an error that escapes the handler in place of a response
CleanupError_rethrown(error) == [statusCode |-> 0, thrown |-> error]

\* the catch of the handler: the 500 response
CleanupError(error) ==
    [statusCode |-> 500, headers |-> cleanupHeaders,
     body |-> JsonStringify([status |-> Str("error"),
                             message |-> Str("Error cleaning up sessions"),
                             error |-> Str(error.message)])]

\* a preflight answered without headers
CleanupPreflight_bare == [statusCode |-> 204]

CleanupPreflight == [statusCode |-> 204, headers |-> cleanupHeaders]

\* what the store answers when the delete fails
DeleteErrors == { SeError("permission denied for table user_sessions", Null),
                  SeError("fetch failed", Null) }

\* the handler up to the await of the delete
ClInvoke(method) ==
    /\ clPc \in {"idle", "done"}
    /\ clInvocations < MaxCleanups
    /\ clInvocations' = clInvocations + 1
    /\ clEvent' = [httpMethod |-> method]
    /\ clRowsBefore' = rows
    /\ clPrev' = IF clPc = "done" /\ clAnswer # Undefined /\ clAnswer.how = "deleted"
                 THEN Num(clNow) ELSE Null
    /\ clAnswer' = Undefined
    /\ IF method = "OPTIONS"
       THEN /\ clPc' = "done"
            /\ clResponse' = CleanupPreflight
            /\ clDeletes' = 0
            /\ UNCHANGED clNow
       ELSE IF ~clClient
       THEN \* throw new Error('Database connection not available')
            /\ clPc' = "done"
            /\ clResponse' = CleanupError(SeError("Database connection not available", Null))
            /\ clDeletes' = 0
            /\ UNCHANGED clNow
       ELSE /\ clPc' = "awaitDelete"
            /\ clNow' = clock
            /\ clDeletes' = 1
            /\ clResponse' = [statusCode |-> 0]
    /\ UNCHANGED <<clClient, clock, rows>>

\* the store runs the delete and returns the rows it deleted
ClStoreDeletes ==
    /\ clPc = "awaitDelete"
    /\ rows' = Remaining(rows, clNow)
    /\ clAnswer' = [how |-> "deleted", data |-> Deleted(rows, clNow)]
    /\ clResponse' = CleanupSuccess(Cardinality(Deleted(rows, clNow)))
    /\ clPc' = "done"
    /\ UNCHANGED <<clEvent, clClient, clock, clNow, clRowsBefore, clPrev, clDeletes,
                   clInvocations>>

\* the store answers with an error, or the request fails; the delete may have run
ClStoreFails(error, applied) ==
    /\ clPc = "awaitDelete"
    /\ rows' = IF applied THEN Remaining(rows, clNow) ELSE rows
    /\ clAnswer' = [how |-> "failed", error |-> error]
    /\ clResponse' = CleanupError(error)
    /\ clPc' = "done"
    /\ UNCHANGED <<clEvent, clClient, clock, clNow, clRowsBefore, clPrev, clDeletes,
                   clInvocations>>

\* time passes
ClTick ==
    /\ clock < MaxClock
    /\ clock' = clock + 1
    /\ UNCHANGED <<clPc, clEvent, clClient, rows, clNow, clRowsBefore, clPrev,
                   clDeletes, clInvocations, clAnswer, clResponse>>

CleanupInit ==
    /\ ExInit /\ SeIdle /\ RfIdle /\ GcIdle /\ UiIdle
    /\ clPc = "idle"
    /\ clEvent = [httpMethod |-> "GET"]
    /\ clClient \in BOOLEAN
    /\ clock = 0
    /\ rows \in Tables
    /\ clNow = 0
    /\ clRowsBefore = {}
    /\ clPrev = Null
    /\ clDeletes = 0
    /\ clInvocations = 0
    /\ clAnswer = Undefined
    /\ clResponse = [statusCode |-> 0]

CleanupNext ==
    \/ \E method \in {"GET", "POST", "OPTIONS"} :
           ClInvoke(method) /\ UNCHANGED <<exVars, seVars, rfVars, gcVars, uiVars>>
    \/ ClStoreDeletes /\ UNCHANGED <<exVars, seVars, rfVars, gcVars, uiVars>>
    \/ \E error \in DeleteErrors, applied \in BOOLEAN :
           ClStoreFails(error, applied) /\ UNCHANGED <<exVars, seVars, rfVars, gcVars, uiVars>>
    \/ ClTick /\ UNCHANGED <<exVars, seVars, rfVars, gcVars, uiVars>>

CleanupSpec == CleanupInit /\ [][CleanupNext]_vars

(***************************************************************************)
(* The two serverless functions side by side.  They share no state, so a    *)
(* behaviour follows requests to one of them.                               *)
(***************************************************************************)
HandlersNext ==
    \/ \E event \in Events, env \in Envs :
           (clInvocations = 0 /\ clock = 0) /\ ExInvoke(event, env) /\ UNCHANGED <<seVars, rfVars, clVars, gcVars, uiVars>>
    \/ \E error \in AxiosErrors :
           (clInvocations = 0 /\ clock = 0) /\ ExTokenFails(error) /\ UNCHANGED <<seVars, rfVars, clVars, gcVars, uiVars>>
    \/ \E payload \in TokenPayloads :
           (clInvocations = 0 /\ clock = 0) /\ ExTokenResponds(payload) /\ UNCHANGED <<seVars, rfVars, clVars, gcVars, uiVars>>
    \/ \E error \in AxiosErrors :
           (clInvocations = 0 /\ clock = 0) /\ ExPagesFails(error) /\ UNCHANGED <<seVars, rfVars, clVars, gcVars, uiVars>>
    \/ \E payload \in PagesPayloads :
           (clInvocations = 0 /\ clock = 0) /\ ExPagesResponds(payload) /\ UNCHANGED <<seVars, rfVars, clVars, gcVars, uiVars>>
    \/ \E ok \in BOOLEAN :
           (clInvocations = 0 /\ clock = 0) /\ ExUserSettles(ok) /\ UNCHANGED <<seVars, rfVars, clVars, gcVars, uiVars>>
    \/ \E ok \in BOOLEAN :
           (clInvocations = 0 /\ clock = 0) /\ ExPermsSettles(ok) /\ UNCHANGED <<seVars, rfVars, clVars, gcVars, uiVars>>
    \/ \E method \in {"GET", "POST", "OPTIONS"} :
           (exPc = "idle") /\ ClInvoke(method) /\ UNCHANGED <<exVars, seVars, rfVars, gcVars, uiVars>>
    \/ (exPc = "idle") /\ ClStoreDeletes /\ UNCHANGED <<exVars, seVars, rfVars, gcVars, uiVars>>
    \/ \E error \in DeleteErrors, applied \in BOOLEAN :
           (exPc = "idle") /\ ClStoreFails(error, applied) /\ UNCHANGED <<exVars, seVars, rfVars, gcVars, uiVars>>
    \/ (exPc = "idle") /\ ClTick /\ UNCHANGED <<exVars, seVars, rfVars, gcVars, uiVars>>

HandlersSpec == CleanupInit /\ [][HandlersNext]_vars

(***************************************************************************)
(* getCurrentUser.                                                         *)
(***************************************************************************)
MaxUserIds == 2

\* session.user: id, email, user_metadata?.role, created_at
SessionUsers ==
    [t : {"user"}, id : 1..MaxUserIds, email : {Undefined, Str("a@crt.org")},
     role : {Undefined, Str("admin")}, created_at : {Undefined, Str("2024-01-01")}]

\* what supabase.auth.getSession() settles with, as getCurrentUser reads it;
\* a resolved value without `data` makes the destructuring throw
SessionAnswers ==
    [how : {"resolve"},
     v : { Result(ses, err) :
             ses \in {Null, [t |-> "session", user |-> Undefined]} \cup {[t |-> "session", user |-> u] : u \in SessionUsers},
             err \in {Null, SeError("Supabase not configured", Null)} }
         \cup {Null}]
    \cup [how : {"reject"}, v : {SeError("Failed to fetch", Null)}]

\* what the read of public.users (.single()) settles with
ReadAnswers ==
    [how : {"resolve"},
     v : { [data |-> d, error |-> e] :
             d \in {Null} \cup {[t |-> "object", id |-> i, email |-> Str("a@crt.org"), role |-> Str(r), created_at |-> Str("2023-06-01")] : i \in 1..MaxUserIds, r \in {"customer", "admin"}},
             e \in {Null, SeError("JSON object requested, multiple (or no) rows returned", Null)} }]
    \cup [how : {"reject"}, v : {SeError("Failed to fetch", Null)}]

\* new Date().toISOString()
NowIso == Str("<now>")

\* minimalUser
MinimalUser(user) ==
    [id |-> user.id,
     email |-> Or(user.email, Str("")),
     role |-> Or(user.role, Str("customer")),
     created_at |-> Or(user.created_at, NowIso),
     isAuthenticated |-> TRUE]

\* { ...userData, isAuthenticated: true }
FullUser(userData) ==
    [k \in DOMAIN userData \cup {"isAuthenticated"} |->
        IF k = "isAuthenticated" THEN TRUE ELSE userData[k]]

\* the session lookup gave no user: an error, an exception, no session, no user
NoSessionUser(a) ==
    \/ a.how = "reject"
    \/ a.v = Null
    \/ Truthy(a.v.error)
    \/ ~Truthy(a.v.session)
    \/ ~Truthy(a.v.session.user)

\* a failed read of public.users fails the whole call
AfterRead_failOutright(minimalUser, b) ==
    IF b.how = "reject" \/ Truthy(b.v.error) THEN Null
    ELSE IF Truthy(b.v.data) THEN FullUser(b.v.data)
    ELSE minimalUser

\* what getCurrentUser returns once the read of public.users has settled with b
AfterRead(minimalUser, b) ==
    IF b.how = "reject" THEN minimalUser
    ELSE IF Truthy(b.v.error) THEN minimalUser
    ELSE IF Truthy(b.v.data) THEN FullUser(b.v.data)
    ELSE minimalUser

\* getCurrentUser up to the await of the session
GcCall ==
    /\ gcPc = "idle"
    /\ gcPc' = "awaitSession"
    /\ UNCHANGED <<gcSession, gcRead, gcUpdates, gcResult>>

\* the session lookup settles
GcSessionSettles(a) ==
    /\ gcPc = "awaitSession"
    /\ gcSession' = a
    /\ IF NoSessionUser(a)
       THEN gcPc' = "done" /\ gcResult' = Null
       ELSE gcPc' = "awaitUser" /\ UNCHANGED gcResult
    /\ UNCHANGED <<gcRead, gcUpdates>>

\* the read of public.users settles; a row found starts the last_sign_in update
GcReadSettles(b) ==
    /\ gcPc = "awaitUser"
    /\ gcRead' = b
    /\ gcResult' = AfterRead(MinimalUser(gcSession.v.session.user), b)
    /\ gcUpdates' = IF b.how = "resolve" /\ ~Truthy(b.v.error) /\ Truthy(b.v.data)
                    THEN gcUpdates + 1 ELSE gcUpdates
    /\ gcPc' = "done"
    /\ UNCHANGED gcSession

UserNext ==
    \/ GcCall /\ UNCHANGED <<exVars, seVars, rfVars, clVars, uiVars>>
    \/ \E a \in SessionAnswers :
           GcSessionSettles(a) /\ UNCHANGED <<exVars, seVars, rfVars, clVars, uiVars>>
    \/ \E b \in ReadAnswers :
           GcReadSettles(b) /\ UNCHANGED <<exVars, seVars, rfVars, clVars, uiVars>>

UserSpec == AllIdle /\ [][UserNext]_vars

(***************************************************************************)
(* logout (lib/auth.ts) and handleRetryAuthentication (Settings).          *)
(***************************************************************************)
MaxKeys == 3

\* localStorage with distinct keys, in every order
Storages ==
    { f \in UNION { [1..n -> { <<"sb-", "crt-auth-token">>, <<"supabase", ".auth.token">>, <<"theme">>, <<"fb_auth_state">> }] : n \in 0..MaxKeys } :
        \A i, j \in DOMAIN f : i # j => f[i] # f[j] }

\* key.includes(piece)
Includes(key, piece) == \E i \in DOMAIN key : key[i] = piece
\* key.includes('supabase') || key.includes('sb-')
IsAuthKey(key) == Includes(key, "supabase") \/ Includes(key, "sb-")

\* for (let i = 0; i < localStorage.length; i++) { ... removeItem ... }, from
\* index i on (counted from 1)
RECURSIVE ClearLoop(_, _)
ClearLoop(keys, i) ==
    IF i > Len(keys) THEN keys
    ELSE IF IsAuthKey(keys[i]) THEN ClearLoop(([k \in 1..(Len(keys) - 1) |-> IF k < i THEN keys[k] ELSE keys[k + 1]]), i + 1)
    ELSE ClearLoop(keys, i + 1)

\* what supabase.auth.signOut() settles with
SignOutAnswers ==
    [how : {"resolve"}, v : {[error |-> Null], [error |-> SeError("Network error", Null)]}]
    \cup [how : {"reject"}, v : {SeError("Failed to fetch", Null)}]

\* logout(), or a click on the re-authenticate button, up to the await of signOut()
LoCall(via) ==
    /\ loPc = "idle"
    /\ loPc' = "awaitSignOut"
    /\ loVia' = via
    /\ IF via = "handleRetryAuthentication"
       THEN stLoading' = TRUE /\ stError' = Null
       ELSE UNCHANGED <<stLoading, stError>>
    /\ UNCHANGED <<authRetryCount, socialConnections, storage, storageBlocked, loOutcome>>

\* signOut() settles: logout throws on an error, the re-authenticate handler does
\* not look at the resolved value
LoSignOutSettles(a) ==
    /\ loPc = "awaitSignOut"
    /\ loPc' = "done"
    /\ IF loVia = "logout"
       THEN /\ UNCHANGED <<stLoading, stError>>
            /\ IF a.how = "reject" \/ Truthy(a.v.error)
               THEN loOutcome' = "thrown" /\ UNCHANGED storage
               ELSE /\ loOutcome' = "true"
                    /\ storage' = IF storageBlocked THEN storage ELSE ClearLoop(storage, 1)
       ELSE IF a.how = "reject" \/ storageBlocked
            THEN /\ loOutcome' = "error"
                 /\ stError' = Str("Failed to reset authentication. Please try reloading the page.")
                 /\ stLoading' = FALSE
                 /\ UNCHANGED storage
            ELSE /\ loOutcome' = "redirected"
                 /\ storage' = ClearLoop(storage, 1)
                 /\ UNCHANGED <<stLoading, stError>>
    /\ UNCHANGED <<authRetryCount, socialConnections, loVia, storageBlocked>>

LogoutInit ==
    /\ CoreIdle /\ DcIdle /\ LdIdle /\ ApIdle /\ DbIdle /\ AdIdle
    /\ loPc = "idle"
    /\ loVia = "none"
    /\ storage \in Storages
    /\ storageBlocked \in BOOLEAN
    \* a storage the page may not access shows it no keys
    /\ storageBlocked => storage = <<>>
    /\ loOutcome = "none"
    /\ stLoading = FALSE
    /\ stError \in {Null, Str("User not authenticated after multiple attempts")}
    /\ authRetryCount = 0
    /\ socialConnections = <<>>

LogoutNext ==
    \/ \E via \in {"logout", "handleRetryAuthentication"} :
           LoCall(via) /\ UNCHANGED loRest
    \/ \E a \in SignOutAnswers :
           LoSignOutSettles(a) /\ UNCHANGED loRest

LogoutSpec == LogoutInit /\ [][LogoutNext]_vars

(***************************************************************************)
(* handleDisconnectSocial (Settings).                                      *)
(***************************************************************************)
MaxDisconnects == 2

ConnectionIds == {"c1", "c2"}
\* the lists the page can show: no id twice
ConnectionLists ==
    { f \in UNION { [1..n -> ConnectionIds] : n \in 0..Cardinality(ConnectionIds) } :
        \A i, j \in DOMAIN f : i # j => f[i] # f[j] }

\* what the delete settles with
DisconnectAnswers ==
    [how : {"resolve"}, v : {[error |-> Null], [error |-> [t |-> "pgerror", message |-> ("permission denied")]]}]
    \cup [how : {"reject"}, v : {SeError("Failed to fetch", Null)}]

\* if (error) throw error did not throw and the await did not reject
DeleteSucceeded(a) == a.how = "resolve" /\ ~Truthy(a.v.error)

\* error instanceof Error ? error.message : 'Failed to disconnect account'
DisconnectMessage(a) ==
    IF a.how = "reject" THEN Str(a.v.message)
    ELSE IF a.v.error.t = "error" THEN Str(a.v.error.message)
    ELSE Str("Failed to disconnect account")

\* prevConnections.filter(conn => conn.id !== connectionId)
Without(prevConnections, connectionId) ==
    SelectSeq(prevConnections, LAMBDA c : c # connectionId)

\* the connection leaves the list whatever the store answered
ShownAfterDelete_always(prevConnections, connectionId, a) ==
    Without(prevConnections, connectionId)

\* the displayed list once the delete has settled with a
ShownAfterDelete(prevConnections, connectionId, a) ==
    IF DeleteSucceeded(a) THEN Without(prevConnections, connectionId)
    ELSE prevConnections

\* a click on Disconnect, up to the await of the delete
DcCall(connectionId, confirmed) ==
    /\ dcPc \in {"idle", "done"}
    /\ dcCalls < MaxDisconnects
    /\ dcCalls' = dcCalls + 1
    /\ dcId' = connectionId
    /\ dcShownBefore' = socialConnections
    /\ dcAnswer' = Undefined
    /\ IF ~Truthy(connectionId)
       THEN /\ stError' = Str("No connection ID provided")
            /\ dcConfirmed' = "notAsked"
            /\ dcDeletes' = 0
            /\ dcPc' = "done"
       ELSE /\ dcConfirmed' = IF confirmed THEN "yes" ELSE "no"
            /\ UNCHANGED stError
            /\ IF confirmed
               THEN dcPc' = "awaitDelete" /\ dcDeletes' = 1
               ELSE dcPc' = "done" /\ dcDeletes' = 0
    /\ UNCHANGED <<stLoading, authRetryCount, socialConnections, dcStore>>

\* the delete settles; a request that failed may still have been carried out
DcDeleteSettles(a, applied) ==
    /\ dcPc = "awaitDelete"
    /\ DeleteSucceeded(a) => applied
    /\ dcPc' = "done"
    /\ dcAnswer' = a
    /\ dcStore' = IF applied THEN dcStore \ {dcId.v} ELSE dcStore
    /\ socialConnections' = ShownAfterDelete(socialConnections, dcId.v, a)
    /\ stError' = IF DeleteSucceeded(a) THEN stError ELSE DisconnectMessage(a)
    /\ UNCHANGED <<stLoading, authRetryCount, dcId, dcConfirmed, dcDeletes, dcCalls,
                   dcShownBefore>>

DisconnectInit ==
    /\ CoreIdle /\ LoIdle /\ LdIdle /\ ApIdle /\ DbIdle /\ AdIdle
    /\ dcPc = "idle"
    /\ dcId = Undefined
    /\ dcConfirmed = "notAsked"
    /\ dcStore \in SUBSET ConnectionIds
    /\ dcDeletes = 0
    /\ dcCalls = 0
    /\ dcShownBefore = <<>>
    /\ dcAnswer = Undefined
    /\ stLoading = FALSE
    /\ stError = Null
    /\ authRetryCount = 0
    /\ socialConnections \in ConnectionLists

DisconnectNext ==
    \/ \E connectionId \in ({Undefined, Str("")} \cup {Str(c) : c \in ConnectionIds}), confirmed \in BOOLEAN :
           DcCall(connectionId, confirmed) /\ UNCHANGED dcRest
    \/ \E a \in DisconnectAnswers, applied \in BOOLEAN :
           DcDeleteSettles(a, applied) /\ UNCHANGED dcRest

DisconnectSpec == DisconnectInit /\ [][DisconnectNext]_vars

(***************************************************************************)
(* The loader of the Settings page: useEffect(loadData, [authRetryCount]). *)
(***************************************************************************)
MaxRuns == 5

\* what supabase.auth.getUser() settles with
GetUserAnswers ==
    [how : {"resolve"},
     v : { [user |-> Null, error |-> Null],
           [user |-> Str("u1"), error |-> Null],
           [user |-> Null, error |-> SeError("invalid JWT", Null)] }]
    \cup [how : {"reject"}, v : {SeError("Failed to fetch", Null)}]

At(r, pc) == r \in DOMAIN ldRuns /\ ldRuns[r].pc = pc
Goto(r, pc) == [ldRuns EXCEPT ![r].pc = pc]

\* authRetryCount >= 2, on the value the run closed over
OutOfRetries(c) == c >= 2

\* React runs the effect after the first render and after authRetryCount changed:
\* loadData() up to the await of line 399
LdEffect ==
    /\ ldEffectFor # authRetryCount
    /\ Len(ldRuns) < MaxRuns
    /\ ldEffectFor' = authRetryCount
    /\ ldRuns' = Append(ldRuns, [c |-> authRetryCount, pc |-> "awaitRefresh"])
    /\ ldRefreshes' = ldRefreshes + 1
    /\ stLoading' = TRUE
    /\ stError' = Null
    /\ UNCHANGED <<authRetryCount, socialConnections, ldGaveUp, ldOnlyNoUser>>

\* the refresh of line 399 settles (it cannot throw); getUser() is called
LdRefreshSettles(r) ==
    /\ At(r, "awaitRefresh")
    /\ ldRuns' = Goto(r, "awaitUser")
    /\ UNCHANGED <<stVars, ldEffectFor, ldRefreshes, ldGaveUp, ldOnlyNoUser>>

\* getUser() settles
LdUserSettles(r, a) ==
    /\ At(r, "awaitUser")
    /\ ldOnlyNoUser' = (ldOnlyNoUser /\ a.how = "resolve" /\ a.v.user = Null /\ a.v.error = Null)
    /\ IF a.how = "reject"
       THEN /\ ldRuns' = Goto(r, "done")
            /\ stError' = Str(a.v.message)
            /\ stLoading' = FALSE
            /\ UNCHANGED <<authRetryCount, ldRefreshes, ldGaveUp>>
       ELSE IF Truthy(a.v.error)
       THEN /\ ldRuns' = Goto(r, "done")
            /\ stError' = [t |-> "template", text |-> "Authentication error:", m |-> a.v.error.message]
            /\ stLoading' = FALSE
            /\ UNCHANGED <<authRetryCount, ldRefreshes, ldGaveUp>>
       ELSE IF ~Truthy(a.v.user)
       THEN IF OutOfRetries(ldRuns[r].c)
            THEN /\ ldRuns' = Goto(r, "done")
                 /\ stError' = Str("User not authenticated after multiple attempts")
                 /\ stLoading' = FALSE
                 /\ ldGaveUp' = TRUE
                 /\ UNCHANGED <<authRetryCount, ldRefreshes>>
            ELSE \* setAuthRetryCount(prev => prev + 1); await refreshSupabaseToken()
                 /\ authRetryCount' = authRetryCount + 1
                 /\ ldRefreshes' = ldRefreshes + 1
                 /\ ldRuns' = Goto(r, "awaitRetryRefresh")
                 /\ UNCHANGED <<stLoading, stError, ldGaveUp>>
       ELSE /\ ldRuns' = Goto(r, "awaitConnections")
            /\ UNCHANGED <<stLoading, stError, authRetryCount, ldRefreshes, ldGaveUp>>
    /\ UNCHANGED <<socialConnections, ldEffectFor>>

\* the refresh of line 425 settles: the 1000 ms wait begins
LdRetryRefreshSettles(r) ==
    /\ At(r, "awaitRetryRefresh")
    /\ ldRuns' = Goto(r, "awaitWait")
    /\ UNCHANGED <<stVars, ldEffectFor, ldRefreshes, ldGaveUp, ldOnlyNoUser>>

\* the wait is over: loadData() is called again from the same closure, up to its
\* first await, then this run returns through `finally`
LdWaitEnds(r) ==
    /\ At(r, "awaitWait")
    /\ Len(ldRuns) < MaxRuns
    /\ ldRuns' = Append(Goto(r, "done"), ([c |-> (ldRuns[r].c), pc |-> "awaitRefresh"]))
    /\ ldRefreshes' = ldRefreshes + 1
    /\ stError' = Null
    /\ stLoading' = FALSE
    /\ UNCHANGED <<authRetryCount, socialConnections, ldEffectFor, ldGaveUp, ldOnlyNoUser>>

\* getSocialConnections() settles
LdConnectionsSettle(r, ok, connections) ==
    /\ At(r, "awaitConnections")
    /\ ldRuns' = Goto(r, "awaitWebhooks")
    /\ socialConnections' = IF ok THEN connections ELSE socialConnections
    /\ UNCHANGED <<stLoading, stError, authRetryCount, ldEffectFor, ldRefreshes, ldGaveUp,
                   ldOnlyNoUser>>

\* getWebhookConfigsByUserId() settles: the run ends through `finally`
LdWebhooksSettle(r) ==
    /\ At(r, "awaitWebhooks")
    /\ ldRuns' = Goto(r, "done")
    /\ stLoading' = FALSE
    /\ UNCHANGED <<stError, authRetryCount, socialConnections, ldEffectFor, ldRefreshes,
                   ldGaveUp, ldOnlyNoUser>>

\* the component before its first effect
LoaderInit ==
    /\ CoreIdle /\ LoIdle /\ DcIdle /\ ApIdle /\ DbIdle /\ AdIdle
    /\ LdIdle
    /\ stLoading = TRUE
    /\ stError = Null
    /\ authRetryCount = 0
    /\ socialConnections = <<>>

LoaderNext ==
    \/ LdEffect /\ UNCHANGED ldRest
    \/ \E r \in 1..Len(ldRuns) : LdRefreshSettles(r) /\ UNCHANGED ldRest
    \/ \E r \in 1..Len(ldRuns), a \in GetUserAnswers :
           LdUserSettles(r, a) /\ UNCHANGED ldRest
    \/ \E r \in 1..Len(ldRuns) : LdRetryRefreshSettles(r) /\ UNCHANGED ldRest
    \/ \E r \in 1..Len(ldRuns) : LdWaitEnds(r) /\ UNCHANGED ldRest
    \/ \E r \in 1..Len(ldRuns), ok \in BOOLEAN, connections \in ConnectionLists :
           LdConnectionsSettle(r, ok, connections) /\ UNCHANGED ldRest
    \/ \E r \in 1..Len(ldRuns) : LdWebhooksSettle(r) /\ UNCHANGED ldRest

LoaderSpec == LoaderInit /\ [][LoaderNext]_vars

(***************************************************************************)
(* App: initializeApp, the auth listener, the connection retry and the     *)
(* safety timeout.                                                         *)
(***************************************************************************)
MaxLookups == 3
MaxAuthEvents == 2

StartLookup(origin) == Append(apLookups, [origin |-> origin, stage |-> "session"])

\* the user state after a lookup started by `origin` resolved with userData
UserAfterLookup(origin, userData, user) ==
    IF origin = "init" THEN userData
    ELSE IF Truthy(userData) THEN userData
    ELSE user

\* the timeout callback tests a fresh `loading`, which initializeApp may have reset
ForcedLoading_unforced(loading) == loading

\* setTimeout callback: if (loading) setLoading(false), with the `loading` of the
\* first render, which is true
ForcedLoading(loading) == FALSE

\* lookup k has resolved with userData
ApDeliver(k, userData) ==
    /\ apLookups' = [apLookups EXCEPT ![k].stage = "done"]
    /\ apUser' = UserAfterLookup(apLookups[k].origin, userData, apUser)
    /\ IF apLookups[k].origin = "init"
       THEN apLoading' = FALSE /\ apInitPc' = "done"
       ELSE UNCHANGED <<apLoading, apInitPc>>

\* the getSession() of initializeApp settles
ApSessionSettles(ok) ==
    /\ apInitPc = "awaitSession"
    /\ IF ~ok
       THEN /\ apError' = Str("Failed to fetch")
            /\ apLoading' = FALSE
            /\ apInitPc' = "done"
            /\ UNCHANGED <<apUser, apLookups>>
       ELSE IF ~apStoreSession
       THEN /\ apUser' = Null
            /\ apLoading' = FALSE
            /\ apInitPc' = "done"
            /\ UNCHANGED <<apError, apLookups>>
       ELSE /\ apLookups' = StartLookup("init")
            /\ apInitPc' = "awaitUser"
            /\ UNCHANGED <<apUser, apLoading, apError>>
    /\ UNCHANGED <<apStoreSession, apTimer, apSignedOut, apEvents>>

\* the getSession() inside a getCurrentUser() call settles
ApLookupReadsSession(k, ok) ==
    /\ k \in DOMAIN apLookups
    /\ apLookups[k].stage = "session"
    /\ IF ok /\ apStoreSession
       THEN /\ apLookups' = [apLookups EXCEPT ![k].stage = "read"]
            /\ UNCHANGED <<apUser, apLoading, apInitPc>>
       ELSE ApDeliver(k, Null)
    /\ UNCHANGED <<apError, apStoreSession, apTimer, apSignedOut, apEvents>>

\* the users read inside a getCurrentUser() call settles: a user either way
ApLookupResolves(k) ==
    /\ k \in DOMAIN apLookups
    /\ apLookups[k].stage = "read"
    /\ ApDeliver(k, Str("u1"))
    /\ UNCHANGED <<apError, apStoreSession, apTimer, apSignedOut, apEvents>>

\* the store delivers an auth event to the listener
ApAuthEvent(event) ==
    /\ apInitPc # "idle"
    /\ apEvents < MaxAuthEvents
    /\ apEvents' = apEvents + 1
    /\ IF event = "SIGNED_IN"
       THEN /\ Len(apLookups) < MaxLookups
            /\ apStoreSession' = TRUE
            /\ apSignedOut' = FALSE
            /\ apLookups' = StartLookup("signedIn")
            /\ UNCHANGED apUser
       ELSE IF event = "SIGNED_OUT"
       THEN /\ apStoreSession' = FALSE
            /\ apSignedOut' = TRUE
            /\ apUser' = Null
            /\ UNCHANGED apLookups
       ELSE UNCHANGED <<apStoreSession, apSignedOut, apUser, apLookups>>
    /\ UNCHANGED <<apLoading, apError, apInitPc, apTimer>>

\* ConnectionStatus calls onRetry; it is rendered once loading is false
ApRetry ==
    /\ apInitPc # "idle"
    /\ ~apLoading
    /\ Len(apLookups) < MaxLookups
    /\ apLookups' = StartLookup("retry")
    /\ UNCHANGED <<apUser, apLoading, apError, apInitPc, apStoreSession, apTimer,
                   apSignedOut, apEvents>>

\* the safety timeout fires after 5000 ms
ApTimerFires ==
    /\ apTimer = "armed"
    /\ apTimer' = "fired"
    /\ apLoading' = ForcedLoading(apLoading)
    /\ UNCHANGED <<apUser, apError, apInitPc, apLookups, apStoreSession, apSignedOut,
                   apEvents>>

\* the effect has run: listener set up, initializeApp at its first await, timer armed
AppInit ==
    /\ CoreIdle /\ StIdle /\ LoIdle /\ DcIdle /\ LdIdle /\ DbIdle /\ AdIdle
    /\ apUser = Null
    /\ apLoading = TRUE
    /\ apError = Null
    /\ apInitPc = "awaitSession"
    /\ apLookups = <<>>
    /\ apStoreSession \in BOOLEAN
    /\ apTimer = "armed"
    /\ apSignedOut = FALSE
    /\ apEvents = 0

AppNext ==
    \/ \E ok \in BOOLEAN : ApSessionSettles(ok) /\ UNCHANGED apRest
    \/ \E k \in 1..Len(apLookups), ok \in BOOLEAN :
           ApLookupReadsSession(k, ok) /\ UNCHANGED apRest
    \/ \E k \in 1..Len(apLookups) : ApLookupResolves(k) /\ UNCHANGED apRest
    \/ \E event \in {"SIGNED_IN", "SIGNED_OUT", "USER_UPDATED", "TOKEN_REFRESHED"} : ApAuthEvent(event) /\ UNCHANGED apRest
    \/ ApRetry /\ UNCHANGED apRest
    \/ ApTimerFires /\ UNCHANGED apRest

AppSpec == AppInit /\ [][AppNext]_vars

\* The event loop runs the timeout callback once it is due; nothing makes the
\* store answer.
AppFairSpec ==
    /\ AppInit
    /\ [][AppNext]_vars
    /\ WF_vars(ApTimerFires /\ UNCHANGED apRest)

(***************************************************************************)
(* Dashboard: loadData and its retry.                                      *)
(***************************************************************************)
MaxLoads == 2

SliceNames == {"socialConnections", "messageAnalytics", "recentConversations", "hourlyVolume"} \cup {"voiceflowMapping", "stats"}

\* a session lookup of the store: the same answers as in getCurrentUser, a session
\* always carrying its user
DashboardSessionAnswers ==
    { a \in SessionAnswers :
        (a.how = "resolve" /\ a.v # Null /\ Truthy(a.v.session)) => Truthy(a.v.session.user) }

\* the entries of Promise.allSettled
Rejected == [status |-> "rejected", reason |-> SeError("Failed to fetch", Null)]

\* what each of the six loads can settle with
LoadValues(name) ==
    IF name = "stats" THEN {[t |-> "object", totalMessages |-> 7]}
    ELSE IF name = "voiceflowMapping" THEN {Null, Arr(<<>>), Arr(<<Str("vf1")>>)}
    ELSE {Null, Arr(<<Num(1)>>)}
LoadResults ==
    { f \in [SliceNames -> {Rejected} \cup {[status |-> "fulfilled", value |-> v] : v \in UNION {LoadValues(n) : n \in SliceNames}}] :
        \A n \in SliceNames : f[n] = Rejected \/ f[n].value \in LoadValues(n) }

\* the session lookup let loadData go on: no error, no exception, a session
HasSession(a) ==
    /\ a.how = "resolve"
    /\ a.v # Null
    /\ ~Truthy(a.v.error)
    /\ Truthy(a.v.session)

\* the slice `name` after its allSettled entry was handled
ApplyResult(name, result, slice) ==
    IF result.status # "fulfilled" THEN slice
    ELSE IF name = "voiceflowMapping"
    THEN IF result.value.t = "array" /\ Len(result.value.v) > 0
         THEN result.value.v[1] ELSE slice
    ELSE IF name = "stats" THEN result.value
    ELSE Or(result.value, Arr(<<>>))

\* Promise.all in place of Promise.allSettled: one rejection fails the run
LoadingAfterLoads_all(results) ==
    IF \E n \in SliceNames : results[n].status = "rejected" THEN "error" ELSE "success"

\* setLoading('success') after the results were handled, rejected or not
LoadingAfterLoads(results) == "success"

\* the error object set by the catch block
ErrorState(network, details) ==
    IF network
    THEN [t |-> "object", message |-> "Network error occurred while loading dashboard data",
          details |-> Str("Please check your internet connection and try again.")]
    ELSE [t |-> "object", message |-> "Failed to load dashboard data", details |-> details]

\* the message of the exception the session lookup ended with
SessionFailure(a) ==
    IF a.how = "reject" THEN Str("Failed to fetch")
    ELSE IF a.v = Null THEN Str("Cannot destructure property 'data'")
    ELSE IF Truthy(a.v.error) THEN Str("Authentication error: ")
    ELSE Str("No active session")

\* loadData up to the await of the session: from the effect, or from the retry
\* button, which is shown in the error state
DbLoad ==
    /\ dbRuns < MaxLoads
    /\ \/ dbPc = "idle"
       \/ dbPc = "done" /\ (dbLoading = "error" \/ Truthy(dbError))
    /\ dbRuns' = dbRuns + 1
    /\ dbPc' = "awaitSession"
    /\ dbLoading' = "loading"
    /\ dbError' = Null
    /\ dbBefore' = dbSlices
    /\ dbSession' = Null
    /\ dbResults' = Null
    /\ UNCHANGED dbSlices

\* the session lookup settles; isNetworkError(err) answers `network`
DbSessionSettles(a, network) ==
    /\ dbPc = "awaitSession"
    /\ dbSession' = a
    /\ IF HasSession(a)
       THEN /\ dbPc' = "awaitLoads"
            /\ UNCHANGED <<dbLoading, dbError>>
       ELSE /\ dbPc' = "done"
            /\ dbError' = ErrorState(network, SessionFailure(a))
            /\ dbLoading' = "error"
    /\ UNCHANGED <<dbSlices, dbBefore, dbResults, dbRuns>>

\* the six loads have settled
DbLoadsSettle(results) ==
    /\ dbPc = "awaitLoads"
    /\ dbResults' = results
    /\ dbSlices' = [n \in SliceNames |-> ApplyResult(n, results[n], dbSlices[n])]
    /\ dbLoading' = LoadingAfterLoads(results)
    /\ dbPc' = "done"
    /\ UNCHANGED <<dbError, dbBefore, dbSession, dbRuns>>

DashboardInit == CoreIdle /\ StIdle /\ LoIdle /\ DcIdle /\ LdIdle /\ ApIdle /\ AdIdle /\ DbIdle

DashboardNext ==
    \/ DbLoad /\ UNCHANGED dbRest
    \/ \E a \in DashboardSessionAnswers, network \in BOOLEAN :
           DbSessionSettles(a, network) /\ UNCHANGED dbRest
    \/ \E results \in LoadResults : DbLoadsSettle(results) /\ UNCHANGED dbRest

DashboardSpec == DashboardInit /\ [][DashboardNext]_vars

(***************************************************************************)
(* isAdmin.                                                                *)
(***************************************************************************)

\* a role read with an error still counts
AdminAfterRead_ignoreError(b) ==
    IF b.how = "reject" THEN FALSE
    ELSE IF Truthy(b.v.data) THEN b.v.data.role = Str("admin")
    ELSE FALSE

\* what isAdmin returns once the read of the role has settled with b
AdminAfterRead(b) ==
    IF b.how = "reject" THEN FALSE
    ELSE IF ~Truthy(b.v.error) /\ Truthy(b.v.data) THEN b.v.data.role = Str("admin")
    ELSE FALSE

\* isAdmin up to the await of the session
AdCall ==
    /\ adPc = "idle"
    /\ adPc' = "awaitSession"
    /\ UNCHANGED <<adSession, adRead, adResult>>

\* the session lookup settles
AdSessionSettles(a) ==
    /\ adPc = "awaitSession"
    /\ adSession' = a
    /\ IF NoSessionUser(a)
       THEN adPc' = "done" /\ adResult' = FALSE
       ELSE IF (a.v.session.user.role = Str("admin"))
       THEN adPc' = "done" /\ adResult' = TRUE
       ELSE adPc' = "awaitUser" /\ UNCHANGED adResult
    /\ UNCHANGED adRead

\* the read of the role settles
AdReadSettles(b) ==
    /\ adPc = "awaitUser"
    /\ adRead' = b
    /\ adResult' = AdminAfterRead(b)
    /\ adPc' = "done"
    /\ UNCHANGED adSession

AdminInit == CoreIdle /\ StIdle /\ LoIdle /\ DcIdle /\ LdIdle /\ ApIdle /\ DbIdle /\ AdIdle

AdminNext ==
    \/ AdCall /\ UNCHANGED adRest
    \/ \E a \in SessionAnswers : AdSessionSettles(a) /\ UNCHANGED adRest
    \/ \E b \in ReadAnswers : AdReadSettles(b) /\ UNCHANGED adRest

AdminSpec == AdminInit /\ [][AdminNext]_vars

(***************************************************************************)
(* The claims about the token exchange handler (ExchangeSpec).             *)
(***************************************************************************)
ExNoCode == exEvent.code \in {Undefined, Str("")}
ExBadRequest ==
    /\ exResponse.statusCode = 400
    /\ "error" \in DOMAIN exResponse.body

\* C1, as stated: every request without a `code` is answered 400 with an {error}
\* body, and no request to the token endpoint is made.
C1_NoCodeIs400 ==
    (exPc = "done" /\ ExNoCode) => (ExBadRequest /\ exCalls = <<>>)

\* C1, amended: a request without a `code` makes no request to the provider, and
\* unless it is an OPTIONS preflight (answered 204) it is answered 400 with an
\* {error} body.
C1_NoCodeIs400UnlessPreflight ==
    (exPc = "done" /\ ExNoCode) =>
        /\ exCalls = <<>>
        /\ IF exEvent.httpMethod = "OPTIONS"
           THEN exResponse.statusCode = 204
           ELSE ExBadRequest

C1_Witness ==
    /\ exPc = "done"
    /\ exEvent.httpMethod = "GET"
    /\ exEvent.code = Str("")
    /\ exEnv.appId # Undefined
    /\ exResponse.statusCode = 400

\* C2: when the token endpoint returned an access token and the pages request
\* fails, the response is 200 with that accessToken, the expiresIn the token
\* endpoint gave, pages = [] and the fields pagesError and errorDetails.
C2_TokenKeptWhenPagesFail ==
    (exPc = "done" /\ exPagesFetch = "failed") =>
        /\ exResponse.statusCode = 200
        /\ Truthy(exData.access_token)
        /\ exResponse.body.accessToken = exData.access_token
        /\ (exData.expires_in # Undefined =>
                /\ "expiresIn" \in DOMAIN exResponse.body
                /\ exResponse.body.expiresIn = exData.expires_in)
        /\ exResponse.body.pages = Arr(<<>>)
        /\ {"pagesError", "errorDetails"} \subseteq DOMAIN exResponse.body

C2_Witness ==
    /\ exPc = "done"
    /\ exPagesFetch = "failed"
    /\ exData.expires_in = Num(3600)
    /\ exCalls = <<"oauth/access_token", "me/accounts">>

\* C3: in a 200 response the pagesError field is present exactly when the pages
\* request itself failed; after a pages request that succeeded the body holds
\* accessToken, expiresIn and pages only.
C3_PagesErrorIffFetchFailed ==
    (exPc = "done" /\ exResponse.statusCode = 200) =>
        /\ ("pagesError" \in DOMAIN exResponse.body) <=> (exPagesFetch = "failed")
        /\ (exPagesFetch = "ok" =>
                DOMAIN exResponse.body \subseteq {"accessToken", "expiresIn", "pages"})

(***************************************************************************)
(* The claims about the session lookup (SessionSpec).                      *)
(***************************************************************************)
SeRejected == {k \in DOMAIN promises : promises[k].state = "rejected"}
SeLookupsInFlight == {k \in DOMAIN promises : promises[k].lookup = "pending"}
SeLast(S) == CHOOSE k \in S : \A j \in S : j <= k

\* C4: a call that gives up has thrown at most maxTimeMs plus one attempt's
\* timeout after it was made.
C4_GivesUpWithinBudget ==
    sePc = "thrown" => finishedAt <= maxTimeMs + AttemptTimeoutMs

\* C5, as stated: never more than one store lookup in flight.
C5_OneLookupInFlight == Cardinality(SeLookupsInFlight) <= 1

\* C5, amended: never more than one attempt pending: the attempt the loop awaits.
\* A new attempt starts only after the previous attempt has settled, by the
\* store's answer or by its timer; only the lookup of an attempt ended by its
\* timer is still in flight after the attempt.
C5_OneAttemptPending ==
    \A k \in DOMAIN promises :
        /\ promises[k].state = "pending" =>
               (sePc = "awaiting" /\ k = attempt /\ k = Len(promises))
        /\ (promises[k].state # "pending" /\ promises[k].lookup = "pending") =>
               promises[k].timer = "fired"

C5_Witness ==
    /\ sePc = "awaiting"
    /\ attempt >= 2
    /\ promises[attempt].state = "pending"
    /\ Cardinality(SeLookupsInFlight) >= 2

\* C6: an attempt that obtained a session is the last one: the call returns that
\* result at the time the attempt settled, with no wait after it and no further
\* attempt.
C6_ReturnsOnSession ==
    \A k \in DOMAIN promises :
        (promises[k].state = "fulfilled" /\ promises[k].value.session # Null) =>
            /\ k = attempt
            /\ k = Len(promises)
            /\ sePc \in {"awaiting", "returned"}
            /\ sePc = "returned" =>
                   /\ seResult = promises[k].value
                   /\ finishedAt = promises[k].settledAt
                   /\ Len(delays) = k - 1

C6_Witness ==
    /\ sePc = "returned"
    /\ attempt = 3
    /\ promises[1].state = "rejected"
    /\ promises[2].state = "fulfilled"

\* C7, as stated: the wait after unsuccessful attempt n is
\* min(initialDelayMs * n, 2000), whatever the way the attempt ended.
C7_LinearBackoffAlways ==
    \A n \in DOMAIN delays : delays[n] = Min(initialDelayMs * n, MaxBackoffMs)

\* C7, amended: the wait after attempt n is min(initialDelayMs * n, 2000) when the
\* attempt returned no session, and initialDelayMs when it failed with an error
\* or a timeout.
C7_BackoffByOutcome ==
    \A n \in DOMAIN delays :
        delays[n] = IF promises[n].state = "rejected"
                    THEN initialDelayMs
                    ELSE Min(initialDelayMs * n, MaxBackoffMs)

C7_Witness ==
    /\ Len(delays) >= 2
    /\ promises[1].state = "fulfilled"
    /\ delays[1] = MaxBackoffMs
    /\ promises[2].state = "rejected"
    /\ delays[2] = initialDelayMs
    /\ initialDelayMs > MaxBackoffMs

\* C8: a call that ends without a session throws: the error of the last failed
\* attempt (as an Error carrying its message) if an attempt failed, the generic
\* 'Session check failed after <maxTimeMs>ms' otherwise; a returned result
\* holds a session.
C8_ThrowsLastError ==
    /\ sePc = "returned" => (seResult.t = "result" /\ seResult.session # Null)
    /\ sePc = "thrown" =>
           IF SeRejected = {}
           THEN seResult = SeError("Session check failed after", maxTimeMs)
           ELSE LET v == promises[SeLast(SeRejected)].value IN
                /\ seResult.t = "error"
                /\ seResult.message = (IF v.t = "error" THEN v.message ELSE v.v)

C8_Witness ==
    /\ sePc = "thrown"
    /\ Len(promises) >= 2
    /\ promises[1].state = "rejected"
    /\ promises[1].value = Str("network down")
    /\ promises[Len(promises)].state = "fulfilled"

\* C9: a getSessionWithTimeout call is pending exactly while its timer is set; it
\* settles with the store's answer, its timer cleared, if the store answers
\* before the timer fires, and with the timeout error at the deadline otherwise;
\* a store answer after the timeout leaves that outcome as it is.
C9_SettlesOnce ==
    \A k \in DOMAIN promises :
        LET p == promises[k] IN
        /\ (p.state = "pending") <=> (p.timer = "armed")
        /\ p.state = "pending" => p.lookup = "pending"
        /\ p.timer = "cleared" =>
               /\ p.lookup = "settled"
               /\ p.value = p.answer.v
               /\ p.state = (IF p.answer.how = "resolve" THEN "fulfilled" ELSE "rejected")
               /\ p.settledAt <= p.deadline
        /\ p.timer = "fired" =>
               /\ p.state = "rejected"
               /\ p.value = SeError("Session check timed out after", AttemptTimeoutMs)
               /\ p.settledAt = p.deadline

C9_Witness ==
    \E k \in DOMAIN promises :
        /\ promises[k].timer = "fired"
        /\ promises[k].lookup = "settled"
        /\ promises[k].answer.how = "resolve"
        /\ promises[k].answer.v.session # Null

(***************************************************************************)
(* The claims about the token refresh (RefreshSpec).                       *)
(***************************************************************************)
\* C10: a refresh call made while the client is offline ends at once with false,
\* issues no refreshSession() request and leaves the cached session as it is,
\* through either entry point.
C10_OfflineRefreshIsNoOp ==
    [][(rfCalls' = rfCalls + 1 /\ navigatorDefined /\ ~onLine) =>
           /\ rfPc' = "done"
           /\ rfResult' = "false"
           /\ refreshRequests' = refreshRequests
           /\ cachedSession' = cachedSession]_vars

C10_Witness ==
    /\ rfPc = "done"
    /\ rfVia = "refreshAuthToken"
    /\ rfCalls = 1
    /\ rfResult = "false"
    /\ navigatorDefined /\ ~onLine
    /\ refreshRequests = 0
    /\ cachedSession # Null

\* C11: refreshSupabaseToken returns true exactly when refreshSession() answered
\* with no error and a session that is not null; every other call returns false.
C11_TrueIffRefreshSucceeded ==
    rfPc = "done" =>
        (rfResult = "true" <=>
            /\ rfAnswer # Undefined
            /\ rfAnswer.how = "resolve"
            /\ rfAnswer.v.error = Null
            /\ rfAnswer.v.session # Null)

(***************************************************************************)
(* The claims about the session cleanup handler (CleanupSpec).             *)
(***************************************************************************)
\* a cleanup invocation has ended and its delete succeeded
ClSucceeded == clPc = "done" /\ clAnswer # Undefined /\ clAnswer.how = "deleted"

\* C12: a successful cleanup whose cutoff is `now` removes exactly the rows with
\* expires_at < now, keeps every row with expires_at >= now, and reports as its
\* count the number of rows it removed.
C12_RemovesExactlyExpired ==
    ClSucceeded =>
        /\ rows = { r \in clRowsBefore : r.expires_at >= clNow * 1000 }
        /\ clRowsBefore \ rows = { r \in clRowsBefore : r.expires_at < clNow * 1000 }
        /\ clAnswer.data = clRowsBefore \ rows
        /\ clResponse.statusCode = 200
        /\ clResponse.body.status = Str("success")
        /\ clResponse.body.message.n = Cardinality(clRowsBefore \ rows)

\* a row expiring exactly at the cutoff is kept while an older one is removed
C12_Witness ==
    /\ ClSucceeded
    /\ clNow >= 1
    /\ \E r \in rows : r.expires_at = clNow * 1000
    /\ \E r \in clRowsBefore \ rows : r.expires_at < clNow * 1000
    /\ clResponse.body.message.n = 1

\* C13: when a successful cleanup is followed by another one and no row's expiry
\* lies between the two cutoffs, the second one answers 200 with 0 rows cleaned
\* and leaves the store as it was.
C13_SecondCleanupIsNoOp ==
    (/\ ClSucceeded
     /\ clPrev # Null
     /\ ~ \E r \in clRowsBefore :
             r.expires_at >= clPrev.v * 1000 /\ r.expires_at < clNow * 1000) =>
        /\ clResponse.statusCode = 200
        /\ clResponse.body.message.n = 0
        /\ clAnswer.data = {}
        /\ rows = clRowsBefore

\* the second cleanup ran at a later cutoff over a store that still holds rows
C13_Witness ==
    /\ ClSucceeded
    /\ clInvocations = 2
    /\ clPrev # Null
    /\ clPrev.v >= 1
    /\ clNow > clPrev.v
    /\ rows # {}
    /\ rows = clRowsBefore
    /\ clResponse.body.message.n = 0

\* a cleanup invocation has ended in a failure: no client, or a failed delete
ClFailed ==
    /\ clPc = "done"
    /\ clEvent.httpMethod # "OPTIONS"
    /\ ~clClient \/ (clAnswer # Undefined /\ clAnswer.how = "failed")

\* C14: when the store is not configured, unreachable or answers the delete with
\* an error, the handler answers 500 with status 'error', a message and the
\* error's text; no exception leaves the handler and an invocation issues at most
\* one delete.
C14_FailureIs500 ==
    /\ clDeletes <= 1
    /\ "thrown" \notin DOMAIN clResponse
    /\ ClFailed =>
           /\ clResponse.statusCode = 500
           /\ DOMAIN clResponse.body = {"status", "message", "error"}
           /\ clResponse.body.status = Str("error")
           /\ clResponse.body.message = Str("Error cleaning up sessions")
           /\ clResponse.body.error.t = "string"
           /\ ~clClient => clDeletes = 0

\* the delete was issued once and the store refused it
C14_Witness ==
    /\ ClFailed
    /\ clClient
    /\ clDeletes = 1
    /\ clAnswer.error = SeError("permission denied for table user_sessions", Null)
    /\ clResponse.statusCode = 500
    /\ clResponse.body.error = Str("permission denied for table user_sessions")

(***************************************************************************)
(* Further claims about the token exchange handler (ExchangeSpec).         *)
(***************************************************************************)
\* a request carrying a code was handled with the app id or the secret absent
ExCodeNoConfig ==
    /\ exPc # "idle"
    /\ Truthy(exEvent.code)
    /\ ~Truthy(exEnv.appId) \/ ~Truthy(exEnv.appSecret)

ExConfigError ==
    /\ exPc = "done"
    /\ exResponse.statusCode = 500
    /\ exResponse.body = [error |-> Str("Server configuration error")]
    /\ exCalls = <<>>

\* C15 (as stated): every request carrying a code that is handled while the app
\* id or the app secret is absent gets 500 {error: 'Server configuration error'}
\* and no request is made to the provider.
C15_NoConfigIs500 == ExCodeNoConfig => ExConfigError

\* C15 (amended): the same for every request other than an OPTIONS preflight; a
\* preflight gets 204 whatever the environment, and makes no provider request.
C15_NoConfigIs500UnlessPreflight ==
    ExCodeNoConfig =>
        IF exEvent.httpMethod = "OPTIONS"
        THEN exPc = "done" /\ exResponse.statusCode = 204 /\ exCalls = <<>>
        ELSE ExConfigError

\* a POST with a code, the app id set and the secret absent
C15_Witness ==
    /\ ExCodeNoConfig
    /\ exEvent.httpMethod = "POST"
    /\ exEnv.appId = Str("app")
    /\ exEnv.appSecret = Undefined
    /\ exResponse.statusCode = 500

\* the token endpoint was asked exactly once and nothing else was
ExOnlyTokenRequest == exCalls = <<"oauth/access_token">>

\* C16: when the token request fails or times out the handler answers 500 with
\* an {error} body, makes no pages or diagnostic request, and never asks the
\* token endpoint twice in one invocation.
C16_TokenFailureIs500 ==
    /\ Cardinality({i \in DOMAIN exCalls : exCalls[i] = "oauth/access_token"}) <= 1
    /\ exTokenFetch = "failed" =>
           /\ exPc = "done"
           /\ exResponse.statusCode = 500
           /\ DOMAIN exResponse.body = {"error"}
           /\ exResponse.body.error.t = "string"
           /\ ExOnlyTokenRequest

\* the token request timed out: the error has no provider message of its own
C16_Witness ==
    /\ exTokenFetch = "failed"
    /\ exResponse.statusCode = 500
    /\ exResponse.body = [error |-> Str("timeout of 10000ms exceeded")]
    /\ ExOnlyTokenRequest

\* C17: when the token endpoint responds and its payload has no access_token the
\* handler answers with a structured 400 {error} and makes no pages or
\* diagnostic request.
C17_NoAccessTokenIs400 ==
    (/\ exTokenFetch = "ok"
     /\ exData = Null \/ ~Truthy(exData.access_token)) =>
        /\ exPc = "done"
        /\ exResponse.statusCode = 400
        /\ DOMAIN exResponse.body = {"error"}
        /\ ExOnlyTokenRequest

\* the pages request succeeded with zero pages and the handler has answered
ExZeroPages == exPc = "done" /\ exPagesFetch = "ok" /\ exPages = Arr(<<>>)

\* C18: when the pages request succeeds with zero pages the identity request and
\* then the permissions request are made, whatever the outcome of the first, and
\* the answer is 200 {accessToken, expiresIn, pages: []} whatever their outcomes.
C18_DiagnosticsSwallowed ==
    ExZeroPages =>
        /\ exCalls = <<"oauth/access_token", "me/accounts", "me", "me/permissions">>
        /\ Len(exDiag) = 2
        /\ exResponse.statusCode = 200
        /\ exResponse.body =
               JsonStringify([accessToken |-> exData.access_token,
                              expiresIn |-> exData.expires_in,
                              pages |-> Arr(<<>>)])

\* the identity request failed and the permissions request was still made
C18_Witness ==
    /\ ExZeroPages
    /\ exDiag = <<FALSE, TRUE>>
    /\ exCalls[4] = "me/permissions"
    /\ exResponse.statusCode = 200
    /\ exResponse.body.accessToken = Str("T1")

(***************************************************************************)
(* The claim about both handlers (HandlersSpec).                           *)
(***************************************************************************)
\* the response carries the CORS headers
CorsHeaders(response) ==
    /\ "headers" \in DOMAIN response
    /\ response.headers.allowOrigin = "*"
    /\ response.headers.allowMethods = "GET, POST, OPTIONS"

\* C19: every response of the exchange handler and of the cleanup handler, with
\* status 200, 204, 400 or 500, carries the CORS headers; an OPTIONS request is
\* answered 204 at once, with no provider request and no delete in the store.
C19_CorsOnEveryResponse ==
    /\ exPc = "done" =>
           /\ exResponse.statusCode \in {200, 204, 400, 500}
           /\ CorsHeaders(exResponse)
    /\ clPc = "done" =>
           /\ clResponse.statusCode \in {200, 204, 500}
           /\ CorsHeaders(clResponse)
    /\ (exPc # "idle" /\ exEvent.httpMethod = "OPTIONS") =>
           /\ exPc = "done"
           /\ exResponse.statusCode = 204
           /\ exCalls = <<>>
    /\ (clInvocations > 0 /\ clEvent.httpMethod = "OPTIONS") =>
           /\ clPc = "done"
           /\ clResponse.statusCode = 204
           /\ clDeletes = 0
           /\ rows = clRowsBefore

\* a preflight to the cleanup handler while the store holds an expired row
C19_Witness ==
    /\ clPc = "done"
    /\ clEvent.httpMethod = "OPTIONS"
    /\ clClient
    /\ clResponse.statusCode = 204
    /\ CorsHeaders(clResponse)
    /\ clDeletes = 0
    /\ \E r \in rows : r.expires_at < clock * 1000

(***************************************************************************)
(* The claim about getCurrentUser (UserSpec).                              *)
(***************************************************************************)
\* the session lookup rejected, answered an error, or gave no session user
GcNoUser ==
    \/ gcSession.how = "reject"
    \/ gcSession.v = Null
    \/ gcSession.v.error # Null
    \/ gcSession.v.session = Null
    \/ gcSession.v.session.user = Undefined

\* the read of public.users rejected, answered an error, or found no row
GcReadFailed ==
    \/ gcRead.how = "reject"
    \/ gcRead.v.error # Null
    \/ gcRead.v.data = Null

\* C20: getCurrentUser returns null exactly when the session lookup errors,
\* throws or yields no session user; otherwise it returns a user with
\* isAuthenticated = true, which, when the read of the users table errors,
\* throws or finds no row, is the record made of the session's id, email, role
\* (default 'customer') and creation time.
C20_NullOrAuthenticatedUser ==
    gcPc = "done" =>
        /\ gcResult # Undefined
        /\ gcResult = Null <=> GcNoUser
        /\ ~GcNoUser =>
               LET user == gcSession.v.session.user IN
               /\ gcResult.isAuthenticated = TRUE
               /\ GcReadFailed =>
                      /\ DOMAIN gcResult =
                             {"id", "email", "role", "created_at", "isAuthenticated"}
                      /\ gcResult.id = user.id
                      /\ gcResult.email =
                             (IF user.email = Undefined THEN Str("") ELSE user.email)
                      /\ gcResult.role =
                             (IF user.role = Undefined THEN Str("customer") ELSE user.role)
                      /\ gcResult.created_at =
                             (IF user.created_at = Undefined THEN NowIso
                              ELSE user.created_at)

\* the read of public.users answered an error for a session without role claim
C20_Witness ==
    /\ gcPc = "done"
    /\ ~GcNoUser
    /\ gcRead.how = "resolve"
    /\ gcRead.v.error # Null
    /\ gcRead.v.data # Null
    /\ gcSession.v.session.user.role = Undefined
    /\ gcResult.role = Str("customer")
    /\ gcResult.isAuthenticated = TRUE
    /\ gcUpdates = 0

(***************************************************************************)
(* The claim about the sign-out paths (LogoutSpec).                        *)
(***************************************************************************)
\* C21: once logout() has returned true, or the re-authenticate action has reached
\* its redirect, localStorage holds no key containing 'supabase' or 'sb-',
\* whatever keys it held before and in whatever order.
C21_NoAuthKeyRemains ==
    loOutcome \in {"true", "redirected"} =>
        \A i \in DOMAIN storage :
            /\ ~ \E j \in DOMAIN storage[i] : storage[i][j] = "supabase"
            /\ ~ \E j \in DOMAIN storage[i] : storage[i][j] = "sb-"

(***************************************************************************)
(* The claim about handleDisconnectSocial (DisconnectSpec).                *)
(***************************************************************************)
\* C22: the store delete is issued only for a non-empty id after the user
\* confirmed; the connection leaves the displayed list only once the delete has
\* succeeded; with an empty id, a declined confirmation or a failed delete the
\* displayed list stays as it was.
C22_DeletedOnlyOnConfirmedSuccess ==
    /\ dcDeletes <= 1
    /\ dcDeletes = 1 =>
           /\ dcId.t = "string" /\ dcId.v # ""
           /\ dcConfirmed = "yes"
    /\ dcPc = "awaitDelete" => socialConnections = dcShownBefore
    /\ dcPc = "done" =>
           IF /\ dcAnswer # Undefined
              /\ dcAnswer.how = "resolve"
              /\ dcAnswer.v.error = Null
           THEN /\ \A i \in DOMAIN socialConnections : socialConnections[i] # dcId.v
                /\ socialConnections = SelectSeq(dcShownBefore, LAMBDA c : c # dcId.v)
           ELSE socialConnections = dcShownBefore

\* the user confirmed, the store refused the delete, and the connection is still shown
C22_Witness ==
    /\ dcPc = "done"
    /\ dcConfirmed = "yes"
    /\ dcDeletes = 1
    /\ dcAnswer # Undefined
    /\ dcAnswer.how = "resolve"
    /\ dcAnswer.v.error # Null
    /\ \E i \in DOMAIN socialConnections : socialConnections[i] = dcId.v
    /\ stError = Str("Failed to disconnect account")

(***************************************************************************)
(* The claim about the exchange handler as a whole (ExchangeSpec).         *)
(***************************************************************************)
\* C23: whatever the token, pages and diagnostic requests do, the exchange
\* handler resolves with a structured response of status 200, 204, 400 or 500;
\* it never ends by throwing.
C23_AlwaysStructuredResponse ==
    /\ "thrown" \notin DOMAIN exResponse
    /\ exPc = "done" =>
           /\ exResponse.statusCode \in {200, 204, 400, 500}
           /\ "headers" \in DOMAIN exResponse
           /\ exResponse.statusCode # 204 =>
                  /\ "body" \in DOMAIN exResponse
                  /\ exResponse.statusCode \in {400, 500} <=> "error" \in DOMAIN exResponse.body
                  /\ exResponse.statusCode = 200 => "accessToken" \in DOMAIN exResponse.body

\* the provider refused the code: its own message is handed on in a 500
C23_Witness ==
    /\ exPc = "done"
    /\ exTokenFetch = "failed"
    /\ exResponse.statusCode = 500
    /\ exResponse.body = [error |-> Str("Invalid verification code")]

(***************************************************************************)
(* The claim about termination of getSessionWithRetry (SessionFairSpec).   *)
(***************************************************************************)
SeEnded == sePc \in {"returned", "thrown"}

\* C25: every call of getSessionWithRetry ends, by returning a result with a
\* session or by throwing, whatever the store does, also when it never answers or
\* always answers without a session; with maxTimeMs <= 0 the call throws at once
\* without a single lookup.
C25_AlwaysTerminates ==
    /\ (sePc # "idle") ~> SeEnded
    /\ [](sePc = "returned" => seResult.session # Null)
    /\ []((sePc # "idle" /\ maxTimeMs <= 0) => (sePc = "thrown" /\ promises = <<>>))

\* the store answered neither of two lookups and the call has thrown
C25_Witness ==
    /\ sePc = "thrown"
    /\ Len(promises) >= 2
    /\ \A k \in DOMAIN promises : promises[k].lookup = "pending"
    /\ seResult = TimedOut(AttemptTimeoutMs)

(***************************************************************************)
(* The claim about the loader of the Settings page (LoaderSpec).           *)
(***************************************************************************)
\* C26: while the store keeps reporting no user, a run that gives up does so with
\* authRetryCount at 2 or more, the error 'User not authenticated after multiple
\* attempts' and loading = false; and once a run has given up, no further
\* loadData run and no further token refresh is started.
C26_RetriesAreBounded ==
    [][/\ (~ldGaveUp /\ ldGaveUp') =>
              /\ authRetryCount' >= 2
              /\ stError' = Str("User not authenticated after multiple attempts")
              /\ stLoading' = FALSE
       /\ (ldGaveUp /\ ldOnlyNoUser') =>
              /\ Len(ldRuns') = Len(ldRuns)
              /\ ldRefreshes' = ldRefreshes]_vars

(***************************************************************************)
(* The claims about App (AppSpec, AppFairSpec).                            *)
(***************************************************************************)
\* C27: once the listener has handled a SIGNED_OUT event the user state is null,
\* and it stays null until a later SIGNED_IN event, however the getCurrentUser()
\* calls started before resolve.
C27_SignedOutStaysNull == apSignedOut => apUser = Null

\* C28: loading becomes false in every execution and stays false; it is false
\* from the moment the safety timeout has fired, also when the session lookup or
\* getCurrentUser() never settles.
C28_LoadingEnds ==
    /\ <>[](apLoading = FALSE)
    /\ [](apTimer = "fired" => apLoading = FALSE)
    /\ [][apLoading = FALSE => apLoading' = FALSE]_vars

\* the timeout has fired while initializeApp still waits for the session lookup
C28_Witness ==
    /\ apTimer = "fired"
    /\ apInitPc = "awaitSession"
    /\ apLoading = FALSE

AdSessionUser ==
    /\ adSession.how = "resolve"
    /\ adSession.v # Null
    /\ adSession.v.error = Null
    /\ adSession.v.session # Null
    /\ adSession.v.session.user # Undefined

\* the read of the role was made and resolved without error with an admin row
AdRowAdmin ==
    /\ adRead # Null
    /\ adRead.how = "resolve"
    /\ adRead.v.error = Null
    /\ adRead.v.data # Null
    /\ adRead.v.data.role = Str("admin")

\* C30: isAdmin always returns a boolean, and true only with a session that has a
\* user and either the role 'admin' in the session metadata or a successful read
\* of the users table giving the role 'admin'; with no session, a session error,
\* a failed read or an exception it returns false.
C30_AdminOnlyByRole ==
    /\ adPc \in {"idle", "awaitSession", "awaitUser", "done"}
    /\ adResult \in BOOLEAN
    /\ adPc = "done" =>
         (adResult <=>
             /\ AdSessionUser
             /\ \/ adSession.v.session.user.role = Str("admin")
                \/ AdRowAdmin)
    /\ adPc # "done" => adResult = FALSE

\* isAdmin has returned true on the strength of the users table alone
C30_Witness ==
    /\ adPc = "done"
    /\ adResult = TRUE
    /\ adSession.v.session.user.role = Undefined
    /\ AdRowAdmin

====
